---- MODULE Spec2Model ----
(***************************************************************************)
(* State-machine model of the rag-code ingest core:                        *)
(*   - the Indexer (IndexFile, DeleteFile, IndexDirectory, storeWithRetry) *)
(*   - the OllamaEmbedder (Embed, EmbedBatch, the request semaphore)       *)
(*   - the Watcher (handleEvent, the per-path debounce timers)             *)
(* Each subsystem has its own specification (SpecIndexer, SpecEmbed,       *)
(* SpecWatcher); the variables of the other subsystems stay unchanged.     *)
(***************************************************************************)
EXTENDS Integers, Sequences, FiniteSets, TLC

VARIABLES
    \* ---- Indexer ----
    disk,        \* file path -> content currently on disk
    store,       \* the vector store: set of points [id, file_path]
    fileHashes,  \* Indexer.fileHashes: path -> recorded hash (NoHash = absent)
    sparse,      \* ids held by the keyword (sparse) index
    graphNodes,  \* ids held by the dependency graph
    ctxDone,     \* the context passed to the calls has been cancelled
    fr,          \* thread -> activation of IndexFile (locals + call history)
    wpc,         \* walk worker -> "off" | "recv" | "busy"
    walk,        \* activation of IndexDirectory (channels, wait group, result)
    lastCall,    \* path -> summary of the last completed IndexFile call
    hist,        \* path -> phase of a DeleteFile-then-IndexFile sequence and
                 \* the ids the store held for the path when it was deleted
    \* ---- OllamaEmbedder ----
    sem,         \* len(e.sem): tokens held in the request semaphore
    eb,          \* EmbedBatch call -> its activation (channels, workers, result)
    ec,          \* direct Embed caller -> position and text
    ectxDone,    \* the context of the embedding calls has been cancelled
    \* ---- Watcher ----
    pending,     \* Watcher.pending: path -> timer (0 = no entry)
    timers,      \* timer -> the time.AfterFunc timer and its goroutine
    inbox,       \* the event handleEvent holds before it takes pendingMu
    nEvents,     \* number of events Start has received
    sinceLast,   \* path -> ticks since the last event arrived for the path
    burstStart,  \* path -> timer of the first event of the path's burst
    wStopped,    \* Watcher.Stop has returned
    \* ---- Dependency graph ----
    graph,       \* the Graph: nodes, outgoing and incoming adjacency
    builder,     \* the Builder: its graph (nodes, edges, name index) and the
                 \* last call made on it
    \* ---- Sparse (keyword) index ----
    redis,       \* the keys RedisIndex keeps in Redis
    sparseLog,   \* the sparse-index operations completed so far
    \* ---- Query path: one call of a query-time function ----
    fnArgs,      \* the function called and its arguments
    fnRet        \* what the call returned ("pending" until it has)

idxVars == <<disk, store, fileHashes, sparse, graphNodes, ctxDone, fr, wpc,
             walk, lastCall, hist>>

embVars == <<sem, eb, ec, ectxDone>>

wVars == <<pending, timers, inbox, nEvents, sinceLast, burstStart, wStopped>>

gVars == <<graph>>

bVars == <<builder>>

sVars == <<redis, sparseLog>>

fVars == <<fnArgs, fnRet>>

vars == <<idxVars, embVars, wVars, gVars, bVars, sVars, fVars>>

\* an indexer step leaves the embedder and the watcher alone, and so on
IdxOnly == UNCHANGED <<embVars, wVars, gVars, bVars, sVars, fVars>>
EmbOnly == UNCHANGED <<idxVars, wVars, gVars, bVars, sVars, fVars>>
WatchOnly == UNCHANGED <<idxVars, embVars, gVars, bVars, sVars, fVars>>
GraphOnly == UNCHANGED <<idxVars, embVars, wVars, bVars, sVars, fVars>>
BuilderOnly == UNCHANGED <<idxVars, embVars, wVars, gVars, sVars, fVars>>
SparseOnly == UNCHANGED <<idxVars, embVars, wVars, gVars, bVars, fVars>>
FnOnly == UNCHANGED <<idxVars, embVars, wVars, gVars, bVars, sVars>>

-----------------------------------------------------------------------------
(* Bounds of the model *)

\* Indexer.numWorkers used by the model (cfg.NumWorkers)
NumWorkers == 2
\* Indexer.batchSize used by the model (cfg.BatchSize)
BatchSize == 1
\* Indexer.maxRetries used by the model (cfg.MaxRetries)
MaxRetries == 2
\* OllamaEmbedder.numWorkers used by the model
EmbedWorkers == 2
\* capacity of OllamaEmbedder.sem used by the model (maxConcurrent)
MaxConcurrent == 2
\* longest texts slice handed to EmbedBatch
MaxTexts == 2
\* Watcher.debounceDuration in clock ticks
DebounceTicks == 2
\* file-system events the watcher receives in one run
MaxEvents == 3

\* edges added to the dependency graph in one run
MaxEdges == 2

\* Builder.Build calls made on one graph before it is cleared
MaxBuilds == 2

\* largest max_chunks budget handed to the context expander
MaxBudget == 3

\* sparse-index operations in one run
MaxOps == 3

\* longest result list a vector or keyword search hands back
MaxHits == 2

\* longest result list handed to the MMR reranker
MaxRanked == 3

\* largest token budget of the prompt generator
MaxTokens == 3
\* longest result list handed to the prompt generator
MaxPrompt == 3

\* longest chunk content handed to the splitter, in bytes
MaxContent == 6

\* paths under the watched directories
WPaths == {"a.go", "b.go"}

-----------------------------------------------------------------------------
(* Indexer: data *)

GoPaths == {"a.go", "b.go"}
OtherPaths == {"n.txt"}
AllPaths == GoPaths \cup OtherPaths

Contents == {"empty", "v1", "v2"}

NoHash == "nohash"
Nil == "nil"

Workers == 1..NumWorkers
MainThread == 0
Threads == {MainThread} \cup Workers

LanguageDetector(p) == IF p \in GoPaths THEN "go" ELSE "unknown"

\* md5 of the file bytes: one digest per content, distinct contents differ
hashFile(c) ==
    CASE c = "empty" -> "d41d8c"
      [] c = "v1"    -> "7b1a02"
      [] c = "v2"    -> "c94f3e"

\* the declarations the parser finds in a file content, as line spans
Layout(c) ==
    CASE c = "empty" -> <<>>
      [] c = "v1"    -> << <<1, 2, "f">>, <<3, 4, "g">> >>
      [] c = "v2"    -> << <<1, 5, "h">> >>

\* sha256 over "path:start:end:content": injective on the four fields
generateChunkID(p, s, e, content) == <<p, s, e, content>>

\* parser.Parse followed by chunker.Chunk: chunks with their ids
Chunk(p, c) ==
    [i \in 1..Len(Layout(c)) |->
        [id        |-> generateChunkID(p, Layout(c)[i][1], Layout(c)[i][2], Layout(c)[i][3]),
         file_path |-> p,
         start     |-> Layout(c)[i][1],
         end       |-> Layout(c)[i][2]]]

Point(ch) == [id |-> ch.id, file_path |-> ch.file_path]

\* QdrantStore.Store: upsert keyed by point id
Upsert(st, batch) ==
    LET ids == {batch[i].id : i \in 1..Len(batch)}
    IN  {pt \in st : pt.id \notin ids} \cup {Point(batch[i]) : i \in 1..Len(batch)}

DeleteByPath_NoMatch(st, p) == st

\* QdrantStore.Delete: delete every point whose payload file_path matches
DeleteByPath(st, p) == {pt \in st : pt.file_path # p}

IdsOfPath(st, p) == {pt.id : pt \in {q \in st : q.file_path = p}}

Min(a, b) == IF a < b THEN a ELSE b

\* chunks[start:end] of storeChunksBatched / embedChunksBatched (start is 0-based)
Batch(chunks, start) ==
    SubSeq(chunks, start + 1, Min(start + BatchSize, Len(chunks)))

Spans(chunks) == {<<chunks[i].start, chunks[i].end>> : i \in 1..Len(chunks)}
IdSpans(ids) == {<<id[2], id[3]>> : id \in ids}

IdleFrame ==
    [pc |-> "idle", path |-> "", currentHash |-> "", chunks |-> <<>>,
     start |-> 0, attempt |-> 0, ret |-> Nil,
     did |-> {}, tries |-> <<>>, delRet |-> FALSE,
     bytes |-> "", hashed |-> FALSE, op |-> "",
     again |-> FALSE, repeat |-> FALSE,
     entryHash |-> "", afterFail |-> FALSE]

\* lastCall: the bytes the last IndexFile call on the path saw, when it
\* returned nil ("" otherwise), whether it left their hash recorded, and the
\* bytes it saw when it computed their hash and returned an error (""
\* otherwise)
NoCall == [bytes |-> "", recorded |-> FALSE, failed |-> ""]

NoHist == [phase |-> "none", old |-> {}]

IdleWalk ==
    [pc |-> "idle", files |-> <<>>, sent |-> 0, fileChan |-> <<>>,
     closed |-> FALSE, errChan |-> <<>>, wg |-> 0, ret |-> "",
     dispatched |-> <<>>]

-----------------------------------------------------------------------------
(* OllamaEmbedder: data *)

maxEmbeddingChars == 384

\* the EmbedBatch calls and the direct Embed callers that may run concurrently
Batches == {"b1", "b2"}
Callers == {"q"}

\* a text: what it says, its length in runes, whether it is valid UTF-8;
\* the i-th text of a batch says i, odd ones are short, even ones oversized
Text(i) ==
    [body  |-> i,
     runes |-> IF i % 2 = 1 THEN maxEmbeddingChars - 100 ELSE maxEmbeddingChars + 100,
     valid |-> i % 2 = 1]

\* the texts slices handed to EmbedBatch
BatchInputs == {[i \in 1..k |-> Text(i)] : k \in 0..MaxTexts}

\* what each of the concurrent EmbedBatch calls may be handed: b1 any of the
\* slices, the call running beside it a single text
InputsOf(b) == IF b = "b1" THEN BatchInputs ELSE {<<Text(1)>>}

NoText == [body |-> 0, runes |-> 0, valid |-> TRUE]

\* strings.ToValidUTF8, then the first maxEmbeddingChars runes
truncateForEmbedding(text) ==
    [body  |-> text.body,
     runes |-> IF text.runes <= maxEmbeddingChars THEN text.runes
               ELSE maxEmbeddingChars,
     valid |-> TRUE]

NilVec == [body |-> 0, runes |-> 0]

\* res.Embedding of the service's 200 response: a function of the prompt
Embedding(prompt) == [body |-> prompt.body, runes |-> prompt.runes]

NoRet == [vectors |-> <<>>, err |-> "", index |-> 0]
\* no error sent to a results channel yet
NoErr == [index |-> 0, err |-> "none"]

\* one EmbedBatch activation. The workers of its pool are anonymous:
\* idle of them sit in `range jobs`, acq holds the jobs of those blocked on
\* the semaphore, infl the jobs of those whose request is in flight.
IdleBatch ==
    [pc |-> "idle", texts |-> <<>>, jobs |-> <<>>, results |-> <<>>,
     closed |-> FALSE, wg |-> 0, idle |-> 0, acq |-> {}, infl |-> {},
     ordered |-> <<>>, got |-> 0, ret |-> NoRet, firstErr |-> NoErr,
     reordered |-> FALSE]

IdleCaller == [pc |-> "idle", ret |-> "", vec |-> NilVec]

\* NewOllamaEmbedderWithConfig: an empty semaphore, nothing running
FreshEmbedder ==
    /\ sem = 0
    /\ eb = [b \in Batches |-> IdleBatch]
    /\ ec = [c \in Callers |-> IdleCaller]
    /\ ectxDone = FALSE

\* node (chunk) ids the graph, the stores and the queries speak of; "" is
\* the empty id
GIds == {"1", "2", "3"}

\* NewGraph: no node, no edge
NewGraph ==
    [nodes |-> {}, edges |-> [n \in GIds |-> <<>>], incoming |-> [n \in GIds |-> <<>>]]

\* the names chunks carry in Metadata["name"], ["receiver"] and ["types"]
Names == {"main", "helper", "Run", "Svc"}

\* no node under an id
NoNode == [ID |-> "", Type |-> "", Name |-> "", receiver |-> ""]

\* NewGraph with node records and the name index: the three maps are empty
EmptyGraph ==
    [nodes |-> [n \in GIds |-> NoNode],
     edges |-> [n \in GIds |-> <<>>],
     index |-> [nm \in Names |-> <<>>]]

\* NewBuilder: a fresh graph, no call made
NewBuilder ==
    [graph |-> EmptyGraph, last |-> "none", chunks |-> <<>>, builds |-> 0,
     before |-> [ids |-> {}, names |-> {}, edges |-> {}]]

\* the tokens and documents of the sparse index
Terms == {"t1", "t2"}
Docs == {"d1", "d2"}

\* a rational number num/den
Rat(num, den) == [num |-> num, den |-> den]

\* an empty Redis: every key absent (GET of an absent key reads as 0)
NewRedis ==
    [posting   |-> [t \in Terms |-> {}],
     tf        |-> [t \in Terms |-> [dd \in Docs |-> 0]],
     df        |-> [t \in Terms |-> 0],
     doc_len   |-> [dd \in Docs |-> 0],
     has_len   |-> {},
     doc_count |-> 0,
     avg_doc_length |-> Rat(0, 1)]

\* no sparse-index call made yet
NoSparseCall == [n |-> 0, op |-> "none", ok |-> FALSE, pairs |-> {}]

\* no query-time call made
NoArgs == [fn |-> "none"]
NotReturned == [done |-> FALSE]

\* graph, sparse index and query path before anything has used them
FreshQuerySide ==
    /\ graph = NewGraph
    /\ builder = NewBuilder
    /\ redis = NewRedis
    /\ sparseLog = NoSparseCall
    /\ fnArgs = NoArgs
    /\ fnRet = NotReturned

\* no event in hand
NoEvent == [path |-> "", kind |-> ""]

\* NewWatcher: no timer pending
FreshWatcher ==
    /\ pending = [p \in WPaths |-> 0]
    /\ timers = <<>>
    /\ inbox = NoEvent
    /\ nEvents = 0
    /\ sinceLast = [p \in WPaths |-> DebounceTicks]
    /\ burstStart = [p \in WPaths |-> 0]
    /\ wStopped = FALSE

\* the paths the caller indexes and deletes directly
DirectPaths == {"a.go", "n.txt"}
EditedPaths == {"a.go"}

\* a fresh Indexer (NewIndexerWithConfig) over the files on disk
FreshIndexer ==
    /\ store = {}
    /\ fileHashes = [p \in AllPaths |-> NoHash]
    /\ sparse = {}
    /\ graphNodes = {}
    /\ ctxDone = FALSE
    /\ fr = [t \in Threads |-> IdleFrame]
    /\ wpc = [w \in Workers |-> "off"]
    /\ walk = IdleWalk
    /\ lastCall = [p \in AllPaths |-> NoCall]
    /\ hist = [p \in AllPaths |-> NoHist]

InitIndexer ==
    /\ disk \in [AllPaths -> Contents]
    /\ \A p \in AllPaths \ EditedPaths : disk[p] = "v1"
    /\ FreshIndexer
    /\ FreshEmbedder
    /\ FreshWatcher
    /\ FreshQuerySide

InitWalk ==
    /\ disk \in [AllPaths -> Contents]
    /\ \A p \in OtherPaths : disk[p] = "v1"
    /\ FreshIndexer
    /\ FreshEmbedder
    /\ FreshWatcher
    /\ FreshQuerySide

-----------------------------------------------------------------------------
(* Indexer.IndexFile, one action per call into a collaborator *)

Set(t, r) == fr' = [fr EXCEPT ![t] = r]

\* the call of thread t returns v; the locals are dropped, the history kept
Return(f, v) ==
    [f EXCEPT !.pc = "ret", !.ret = v, !.chunks = <<>>, !.start = 0,
              !.attempt = 0, !.currentHash = "", !.bytes = ""]

HashGateSkips_Never(previousHash, currentHash) == FALSE

\* seen && previousHash == currentHash
HashGateSkips(previousHash, currentHash) ==
    previousHash # NoHash /\ previousHash = currentHash

\* hist/lastCall bookkeeping when an IndexFile call on p begins
BeginHist(p) ==
    hist' = [hist EXCEPT ![p] = IF @.phase = "deleted"
                                THEN [@ EXCEPT !.phase = "reindexing"] ELSE NoHist]

\* hist/lastCall bookkeeping when the call of frame f returns v
EndCall(f, v, hashes) ==
    /\ lastCall' = [lastCall EXCEPT ![f.path] =
                       IF v = Nil
                       THEN [bytes |-> f.bytes,
                             recorded |-> hashes[f.path] = hashFile(f.bytes),
                             failed |-> ""]
                       ELSE [NoCall EXCEPT !.failed = IF f.hashed THEN f.bytes ELSE ""]]
    /\ hist' = [hist EXCEPT ![f.path] = IF @.phase = "reindexing"
                                       THEN [@ EXCEPT !.phase = "reindexed"] ELSE @]

\* IndexFile entry: language detection, hashFile and the hash gate
IF_Enter(t, p) ==
    LET base == [IdleFrame EXCEPT !.path = p, !.bytes = disk[p],
                                  !.op = "IndexFile",
                                  !.again = lastCall[p].bytes = disk[p],
                                  !.repeat = lastCall[p].bytes = disk[p]
                                             /\ lastCall[p].recorded,
                                  !.entryHash = fileHashes[p],
                                  !.afterFail = lastCall[p].failed = disk[p]]
    IN
    IF LanguageDetector(p) = "unknown"
    THEN /\ Set(t, Return(base, Nil))
         /\ lastCall' = [lastCall EXCEPT ![p] =
                            [bytes |-> disk[p], recorded |-> FALSE, failed |-> ""]]
         /\ hist' = [hist EXCEPT ![p] = NoHist]
    ELSE \E hashOk \in BOOLEAN :
           IF ~hashOk
           THEN /\ Set(t, [base EXCEPT !.pc = "parse"])
                /\ BeginHist(p)
                /\ UNCHANGED lastCall
           ELSE IF HashGateSkips(fileHashes[p], hashFile(disk[p]))
           THEN /\ Set(t, Return([base EXCEPT !.hashed = TRUE], Nil))
                /\ lastCall' = [lastCall EXCEPT ![p] =
                                   [bytes |-> disk[p], recorded |-> TRUE, failed |-> ""]]
                /\ hist' = [hist EXCEPT ![p] =
                               IF @.phase = "deleted"
                               THEN [@ EXCEPT !.phase = "reindexed"] ELSE NoHist]
           ELSE /\ Set(t, [base EXCEPT !.pc = "parse", !.hashed = TRUE,
                                       !.currentHash = hashFile(disk[p])])
                /\ BeginHist(p)
                /\ UNCHANGED lastCall

\* idx.parser.Parse and idx.chunker.Chunk
IF_Parse(t) ==
    LET f == fr[t]
        g == [f EXCEPT !.did = @ \cup {"parse"}]
        chunks == Chunk(f.path, disk[f.path])
    IN
    /\ f.pc = "parse"
    /\ \E ok \in BOOLEAN :
         IF ~ok
         THEN /\ Set(t, Return(g, "parse_err"))
              /\ EndCall(f, "parse_err", fileHashes)
         ELSE IF Len(chunks) = 0
         THEN /\ Set(t, Return(g, Nil))
              /\ EndCall(f, Nil, fileHashes)
         ELSE /\ Set(t, [g EXCEPT !.pc = "embed", !.chunks = chunks, !.start = 0])
              /\ UNCHANGED lastCall
              /\ hist' = [hist EXCEPT ![f.path] =
                            IF @.phase = "reindexing"
                               /\ Spans(chunks) \cap IdSpans(@.old) # {}
                            THEN NoHist ELSE @]
    /\ UNCHANGED <<disk, store, fileHashes, sparse, graphNodes, ctxDone, wpc, walk>>
    /\ IdxOnly

AfterEmbedPc_NoDelete == "store"

\* what IndexFile does once every batch is embedded: idx.store.Delete
AfterEmbedPc == "delete"

\* embedChunksBatched: one EmbedBatch call per batch
IF_Embed(t) ==
    LET f == fr[t]
        g == [f EXCEPT !.did = @ \cup {"embed"}]
        next == f.start + BatchSize
    IN
    /\ f.pc = "embed"
    /\ \E ok \in BOOLEAN :
         IF ~ok
         THEN /\ Set(t, Return(g, "embed_err"))
              /\ EndCall(f, "embed_err", fileHashes)
         ELSE /\ IF next < Len(f.chunks)
                 THEN Set(t, [g EXCEPT !.start = next])
                 ELSE Set(t, [g EXCEPT !.pc = AfterEmbedPc, !.start = 0])
              /\ UNCHANGED <<lastCall, hist>>
    /\ UNCHANGED <<disk, store, fileHashes, sparse, graphNodes, ctxDone, wpc, walk>>
    /\ IdxOnly

\* idx.store.Delete(ctx, filePath): a failure is logged, the call goes on
IF_Delete(t) ==
    LET f == fr[t] IN
    /\ f.pc = "delete"
    /\ \E ok \in BOOLEAN :
         store' = IF ok THEN DeleteByPath(store, f.path) ELSE store
    /\ Set(t, [f EXCEPT !.pc = "store", !.start = 0, !.attempt = 0,
                        !.tries = <<>>, !.delRet = TRUE,
                        !.did = @ \cup {"delete"}])
    /\ UNCHANGED <<disk, fileHashes, sparse, graphNodes, ctxDone, wpc, walk,
                   lastCall, hist>>
    /\ IdxOnly

\* the hash written although the upsert failed
HashesOnStoreError_Record(hashes, p, h) == IF h # "" THEN [hashes EXCEPT ![p] = h] ELSE hashes

\* storeChunksBatched failed: IndexFile returns the error, idx.fileHashes is
\* not written
HashesOnStoreError(hashes, p, h) == hashes

RetryAllowed_OneMore(attempt) == attempt <= MaxRetries

\* the loop condition of storeWithRetry: attempt < idx.maxRetries
RetryAllowed(attempt) == attempt < MaxRetries

\* storeWithRetry: one idx.store.Store attempt on the current batch
IF_Store(t) ==
    LET f == fr[t]
        batch == Batch(f.chunks, f.start)
    IN
    /\ f.pc = "store"
    /\ RetryAllowed(f.attempt)
    /\ \E ok \in BOOLEAN :
         IF ok
         THEN /\ store' = Upsert(store, batch)
              /\ Set(t, [f EXCEPT !.pc = "stored", !.tries = Append(@, "ok"),
                                  !.did = @ \cup {"store"}])
              /\ UNCHANGED <<fileHashes, lastCall, hist>>
         ELSE /\ store' = store
              /\ IF RetryAllowed(f.attempt + 1)
                 THEN /\ Set(t, [f EXCEPT !.pc = "backoff", !.attempt = @ + 1,
                                          !.tries = Append(@, "fail"),
                                          !.did = @ \cup {"store"}])
                      /\ UNCHANGED <<fileHashes, lastCall, hist>>
                 ELSE /\ Set(t, Return([f EXCEPT !.tries = Append(@, "fail"),
                                                 !.did = @ \cup {"store"}],
                                       "store_err"))
                      /\ fileHashes' = HashesOnStoreError(fileHashes, f.path, f.currentHash)
                      /\ EndCall(f, "store_err", fileHashes')
    /\ UNCHANGED <<disk, sparse, graphNodes, ctxDone, wpc, walk>>
    /\ IdxOnly

\* a select that waits for the timer alone
BackoffSelect_TimerOnly(done) == "timer"

\* select { case <-ctx.Done(): ...; case <-time.After(backoff): }: the timer
\* is created by the select itself and is not ready when the wait begins, so
\* a context that is cancelled before the wait ends wins the select
BackoffSelect(done) == IF done THEN "ctx" ELSE "timer"

\* storeWithRetry: the wait between two attempts ends
IF_Backoff(t) ==
    LET f == fr[t] IN
    /\ f.pc = "backoff"
    /\ IF BackoffSelect(ctxDone) = "ctx"
       THEN /\ Set(t, Return(f, "ctx_err"))
            /\ EndCall(f, "ctx_err", fileHashes)
       ELSE /\ Set(t, [f EXCEPT !.pc = "store"])
            /\ UNCHANGED <<lastCall, hist>>
    /\ UNCHANGED <<disk, store, fileHashes, sparse, graphNodes, ctxDone, wpc, walk>>
    /\ IdxOnly

\* storeChunksBatched: the batch is stored, go to the next one
IF_Stored(t) ==
    LET f == fr[t]
        next == f.start + BatchSize
    IN
    /\ f.pc = "stored"
    /\ IF next < Len(f.chunks)
       THEN Set(t, [f EXCEPT !.pc = "store", !.start = next, !.attempt = 0,
                             !.tries = <<>>])
       ELSE Set(t, [f EXCEPT !.pc = "finish"])
    /\ UNCHANGED <<disk, store, fileHashes, sparse, graphNodes, ctxDone, wpc, walk,
                   lastCall, hist>>
    /\ IdxOnly

\* idx.fileHashes[filePath] = currentHash, when currentHash != ""
RecordHash(hashes, p, h) == IF h # "" THEN [hashes EXCEPT ![p] = h] ELSE hashes

\* the tail of IndexFile: keyword index, dependency graph, hash record
IF_Finish(t) ==
    LET f == fr[t]
        ids == {f.chunks[i].id : i \in 1..Len(f.chunks)}
    IN
    /\ f.pc = "finish"
    /\ \E ok \in BOOLEAN :
         sparse' = IF ok THEN sparse \cup ids ELSE sparse
    /\ graphNodes' = graphNodes \cup ids
    /\ fileHashes' = RecordHash(fileHashes, f.path, f.currentHash)
    /\ Set(t, Return([f EXCEPT !.did = @ \cup {"sparse", "graph"}], Nil))
    /\ EndCall(f, Nil, fileHashes')
    /\ UNCHANGED <<disk, store, ctxDone, wpc, walk>>
    /\ IdxOnly

IF_Step(t) ==
    \/ IF_Parse(t)
    \/ IF_Embed(t)
    \/ IF_Delete(t)
    \/ IF_Store(t)
    \/ IF_Backoff(t)
    \/ IF_Stored(t)
    \/ IF_Finish(t)

-----------------------------------------------------------------------------
(* The caller's thread: direct IndexFile and DeleteFile calls *)

MainFree == fr[MainThread].pc \in {"idle", "ret"} /\ walk.pc \in {"idle", "done"}

\* a caller invokes Indexer.IndexFile(ctx, p) with a fresh context
CallIndexFile(p) ==
    /\ MainFree
    /\ IF_Enter(MainThread, p)
    /\ ctxDone' = FALSE
    /\ UNCHANGED walk
    /\ UNCHANGED <<disk, store, fileHashes, sparse, graphNodes, wpc>>
    /\ IdxOnly

\* Indexer.DeleteFile: drop the recorded hash, then idx.store.Delete
DeleteFile(p) ==
    /\ MainFree
    /\ fileHashes' = [fileHashes EXCEPT ![p] = NoHash]
    /\ \E ok \in BOOLEAN :
         /\ store' = IF ok THEN DeleteByPath(store, p) ELSE store
         /\ Set(MainThread, [IdleFrame EXCEPT !.pc = "ret", !.path = p,
                                              !.op = "DeleteFile",
                                              !.ret = IF ok THEN Nil ELSE "delete_err"])
         /\ hist' = [hist EXCEPT ![p] =
                        IF ok THEN [phase |-> "deleted", old |-> IdsOfPath(store, p)]
                        ELSE NoHist]
    /\ lastCall' = [lastCall EXCEPT ![p] = NoCall]
    /\ ctxDone' = FALSE
    /\ UNCHANGED <<disk, sparse, graphNodes, wpc, walk>>
    /\ IdxOnly

\* the steps of the caller's own IndexFile call
MainStep == IF_Step(MainThread)

-----------------------------------------------------------------------------
(* Indexer.IndexDirectory *)

\* directories the walk may be given, as the files filepath.Walk visits
DirTrees == {<<>>, <<"a.go", "n.txt">>, <<"a.go", "b.go", "n.txt">>}

IsKnown(p) == LanguageDetector(p) # "unknown"

\* the files the walk callback collects
FilesToIndex(tree) == SelectSeq(tree, IsKnown)

DirResult_FailOnError(errs) == IF Len(errs) > 0 THEN "index_err" ELSE Nil

\* what IndexDirectory returns once the error channel is drained
DirResult(errs) == Nil

\* filepath.Walk, then the channels are made and the workers started
ID_Start ==
    /\ walk.pc = "idle"
    /\ \/ \E tree \in DirTrees :
            /\ walk' = [IdleWalk EXCEPT !.pc = "send", !.files = FilesToIndex(tree),
                                        !.wg = NumWorkers]
            /\ wpc' = [w \in Workers |-> "recv"]
       \/ /\ walk' = [IdleWalk EXCEPT !.pc = "done", !.ret = "walk_err"]
          /\ UNCHANGED wpc
    /\ UNCHANGED <<disk, store, fileHashes, sparse, graphNodes, ctxDone, fr,
                   lastCall, hist>>
    /\ IdxOnly

\* fileChan <- filePath (the channel holds len(filesToIndex), never blocks)
ID_Send ==
    /\ walk.pc = "send"
    /\ walk.sent < Len(walk.files)
    /\ Len(walk.fileChan) < Len(walk.files)
    /\ walk' = [walk EXCEPT !.fileChan = Append(@, walk.files[walk.sent + 1]),
                            !.sent = @ + 1]
    /\ UNCHANGED <<disk, store, fileHashes, sparse, graphNodes, ctxDone, fr, wpc,
                   lastCall, hist>>
    /\ IdxOnly

\* close(fileChan)
ID_Close ==
    /\ walk.pc = "send"
    /\ walk.sent = Len(walk.files)
    /\ walk' = [walk EXCEPT !.closed = TRUE, !.pc = "wait"]
    /\ UNCHANGED <<disk, store, fileHashes, sparse, graphNodes, ctxDone, fr, wpc,
                   lastCall, hist>>
    /\ IdxOnly

\* wg.Wait() returns, the error channel is closed and drained
ID_Finish ==
    /\ walk.pc = "wait"
    /\ walk.wg = 0
    /\ walk' = [walk EXCEPT !.pc = "done", !.ret = DirResult(walk.errChan)]
    /\ UNCHANGED <<disk, store, fileHashes, sparse, graphNodes, ctxDone, fr, wpc,
                   lastCall, hist>>
    /\ IdxOnly

\* a receive that leaves the value in the channel
Received_Peek(ch) == ch

\* the buffered channel after a receive took its first value
Received(ch) == Tail(ch)

\* a worker's `for filePath := range fileChan`: take a file and enter IndexFile
W_Recv(w) ==
    /\ wpc[w] = "recv"
    /\ walk.fileChan # <<>>
    /\ IF_Enter(w, Head(walk.fileChan))
    /\ walk' = [walk EXCEPT !.fileChan = Received(@),
                            !.dispatched = Append(@, Head(walk.fileChan))]
    /\ wpc' = [wpc EXCEPT ![w] = "busy"]
    /\ UNCHANGED <<disk, store, fileHashes, sparse, graphNodes, ctxDone>>
    /\ IdxOnly

\* the range loop ends on the closed, empty channel: wg.Done()
W_Exit(w) ==
    /\ wpc[w] = "recv"
    /\ walk.fileChan = <<>>
    /\ walk.closed
    /\ wpc' = [wpc EXCEPT ![w] = "off"]
    /\ walk' = [walk EXCEPT !.wg = @ - 1]
    /\ UNCHANGED <<disk, store, fileHashes, sparse, graphNodes, ctxDone, fr,
                   lastCall, hist>>
    /\ IdxOnly

\* a worker's IndexFile call in progress
W_Step(w) ==
    /\ wpc[w] = "busy"
    /\ IF_Step(w)

\* an error channel without buffer
ErrChanCap_Unbuffered(files) == 0

\* errChan := make(chan error, len(filesToIndex))
ErrChanCap(files) == Len(files)

\* IndexFile returned to the worker: errChan <- err when it failed
W_Done(w) ==
    /\ wpc[w] = "busy"
    /\ fr[w].pc = "ret"
    /\ fr[w].ret # Nil => Len(walk.errChan) < ErrChanCap(walk.files)
    /\ walk' = [walk EXCEPT !.errChan =
                   IF fr[w].ret # Nil THEN Append(@, fr[w].ret) ELSE @]
    /\ Set(w, IdleFrame)
    /\ wpc' = [wpc EXCEPT ![w] = "recv"]
    /\ UNCHANGED <<disk, store, fileHashes, sparse, graphNodes, ctxDone,
                   lastCall, hist>>
    /\ IdxOnly

-----------------------------------------------------------------------------
(* The environment of the indexer *)

\* the file's bytes change on disk
EditFile(p, c) ==
    /\ c # disk[p]
    /\ disk' = [disk EXCEPT ![p] = c]
    /\ UNCHANGED <<store, fileHashes, sparse, graphNodes, ctxDone, fr, wpc, walk,
                   lastCall, hist>>
    /\ IdxOnly

\* the caller cancels the context of the running call
Cancel ==
    /\ \/ fr[MainThread].pc \notin {"idle", "ret"}
       \/ walk.pc \in {"send", "wait"}
    /\ ~ctxDone
    /\ ctxDone' = TRUE
    /\ UNCHANGED <<disk, store, fileHashes, sparse, graphNodes, fr, wpc, walk,
                   lastCall, hist>>
    /\ IdxOnly

\* direct calls of one caller: IndexFile, DeleteFile, edits of the file
NextIndexer ==
    \/ \E p \in DirectPaths : CallIndexFile(p)
    \/ \E p \in EditedPaths : DeleteFile(p)
    \/ MainStep
    \/ \E p \in EditedPaths, c \in Contents : EditFile(p, c)
    \/ Cancel

SpecIndexer == InitIndexer /\ [][NextIndexer]_vars

\* one IndexDirectory call on a fresh indexer
NextWalk ==
    \/ ID_Start
    \/ ID_Send
    \/ ID_Close
    \/ ID_Finish
    \/ \E w \in Workers : W_Recv(w)
    \/ \E w \in Workers : W_Exit(w)
    \/ \E w \in Workers : W_Step(w)
    \/ \E w \in Workers : W_Done(w)
    \/ Cancel

SpecWalk == InitWalk /\ [][NextWalk]_vars

\* the Go scheduler runs the caller and every worker that can take a step,
\* and every call into a collaborator returns
SpecWalkFair ==
    /\ SpecWalk
    /\ WF_vars(ID_Send)
    /\ WF_vars(ID_Close)
    /\ WF_vars(ID_Finish)
    /\ \A w \in Workers :
          /\ WF_vars(W_Recv(w))
          /\ WF_vars(W_Exit(w))
          /\ WF_vars(W_Step(w))
          /\ WF_vars(W_Done(w))

-----------------------------------------------------------------------------
(* OllamaEmbedder.EmbedBatch and OllamaEmbedder.Embed *)

SemHasRoom_Unbounded(n) == TRUE

\* `e.sem <- struct{}{}` can proceed: the channel holds fewer than its capacity
SemHasRoom(n) == n < MaxConcurrent

\* numWorkers of EmbedBatch: e.numWorkers, at most len(texts)
PoolSize(texts) == Min(EmbedWorkers, Len(texts))

\* EmbedBatch up to close(jobs): the channels are made, the workers started,
\* every job (index, truncated text) is sent (the channel holds len(texts))
EB_Start(b, texts) ==
    /\ eb[b].pc = "idle"
    /\ IF Len(texts) = 0
       THEN eb' = [eb EXCEPT ![b] =
                      [IdleBatch EXCEPT !.pc = "done",
                                        !.ret = [vectors |-> <<>>, err |-> "none",
                                                 index |-> 0]]]
       ELSE eb' = [eb EXCEPT ![b] =
                      [IdleBatch EXCEPT
                          !.pc = "collect",
                          !.texts = texts,
                          !.jobs = [i \in 1..Len(texts) |->
                                      [index |-> i - 1,
                                       text |-> truncateForEmbedding(texts[i])]],
                          !.wg = PoolSize(texts),
                          !.idle = PoolSize(texts),
                          !.ordered = [i \in 1..Len(texts) |-> NilVec]]]
    /\ UNCHANGED <<sem, ec, ectxDone>>
    /\ EmbOnly

\* a worker's `for job := range jobs`: take the next job and call e.Embed
EW_Recv(b) ==
    /\ eb[b].idle > 0
    /\ eb[b].jobs # <<>>
    /\ eb' = [eb EXCEPT ![b].jobs = Tail(@), ![b].idle = @ - 1,
                        ![b].acq = @ \cup {Head(eb[b].jobs)}]
    /\ UNCHANGED <<sem, ec, ectxDone>>
    /\ EmbOnly

\* the range loop ends on the closed, empty jobs channel: wg.Done()
EW_Exit(b) ==
    /\ eb[b].idle > 0
    /\ eb[b].jobs = <<>>
    /\ eb' = [eb EXCEPT ![b].idle = @ - 1, ![b].wg = @ - 1]
    /\ UNCHANGED <<sem, ec, ectxDone>>
    /\ EmbOnly

\* a results channel without room
ResultsCap_NoRoom(texts) == 0

\* results := make(chan embeddingResult, len(texts))
ResultsCap(texts) == Len(texts)

\* `results <- ...` can proceed: the channel holds fewer than its capacity
CanSend(e) == Len(e.results) < ResultsCap(e.texts)

\* results <- embeddingResult{...} (the channel holds len(texts)); the
\* worker is back in its range loop
Pushed(e, res) ==
    [e EXCEPT !.results = Append(@, res), !.idle = @ + 1,
              !.firstErr = IF @ = NoErr /\ res.err # "none"
                           THEN [index |-> res.index, err |-> res.err] ELSE @]

\* Embed: `case e.sem <- struct{}{}`
EW_Acquire(b) ==
    \E job \in eb[b].acq :
    /\ SemHasRoom(sem)
    /\ sem' = sem + 1
    /\ eb' = [eb EXCEPT ![b].acq = @ \ {job}, ![b].infl = @ \cup {job}]
    /\ UNCHANGED <<ec, ectxDone>>
    /\ EmbOnly

\* Embed: `case <-ctx.Done()`, the error goes to the results channel
EW_CtxDone(b) ==
    \E job \in eb[b].acq :
    /\ ectxDone
    /\ CanSend(eb[b])
    /\ eb' = [eb EXCEPT ![b] =
                 Pushed([@ EXCEPT !.acq = @ \ {job}],
                        [index |-> job.index, embedding |-> NilVec, err |-> "ctx"])]
    /\ UNCHANGED <<sem, ec, ectxDone>>
    /\ EmbOnly

\* Embed: the request ends (200 with an embedding, or an error), the deferred
\* `<-e.sem` runs and the worker sends its result
EW_Finish(b) ==
    \E job \in eb[b].infl :
    /\ CanSend(eb[b])
    /\ \E ok \in BOOLEAN :
         eb' = [eb EXCEPT ![b] =
                   Pushed([@ EXCEPT !.infl = @ \ {job}],
                          IF ok
                          THEN [index |-> job.index,
                                embedding |-> Embedding(truncateForEmbedding(job.text)),
                                err |-> "none"]
                          ELSE [index |-> job.index, embedding |-> NilVec,
                                err |-> "http"])]
    /\ sem' = sem - 1
    /\ UNCHANGED <<ec, ectxDone>>
    /\ EmbOnly

\* the goroutine `wg.Wait(); close(results)`
EB_Close(b) ==
    /\ eb[b].pc \in {"collect", "done"}
    /\ eb[b].texts # <<>>
    /\ eb[b].wg = 0
    /\ ~eb[b].closed
    /\ eb' = [eb EXCEPT ![b].closed = TRUE]
    /\ UNCHANGED <<sem, ec, ectxDone>>
    /\ EmbOnly

CollectStops_Never(res) == FALSE

\* `if res.err != nil { return nil, fmt.Errorf(...index %d..., res.index, ...) }`
CollectStops(res) == res.err # "none"

ResultSlot_Arrival(res, k) == k

\* ordered[res.index] = res.embedding (k-th result received; slots from 1)
ResultSlot(res, k) == res.index + 1

\* `for res := range results`: one result received
EB_Collect(b) ==
    LET res == Head(eb[b].results) IN
    /\ eb[b].pc = "collect"
    /\ eb[b].results # <<>>
    /\ IF CollectStops(res)
       THEN eb' = [eb EXCEPT ![b].results = Tail(@), ![b].pc = "done",
                             ![b].ret = [vectors |-> <<>>, err |-> res.err,
                                         index |-> res.index]]
       ELSE eb' = [eb EXCEPT ![b].results = Tail(@), ![b].got = @ + 1,
                             ![b].reordered = @ \/ res.index # eb[b].got,
                             ![b].ordered[ResultSlot(res, eb[b].got + 1)] =
                                 res.embedding]
    /\ UNCHANGED <<sem, ec, ectxDone>>
    /\ EmbOnly

\* the range over results ends on the closed, empty channel: return ordered
EB_Return(b) ==
    /\ eb[b].pc = "collect"
    /\ eb[b].results = <<>>
    /\ eb[b].closed
    /\ eb' = [eb EXCEPT ![b].pc = "done",
                        ![b].ret = [vectors |-> eb[b].ordered, err |-> "none",
                                    index |-> 0]]
    /\ UNCHANGED <<sem, ec, ectxDone>>
    /\ EmbOnly

\* a direct Embed call (the query path)
EC_Call(c) ==
    /\ ec[c].pc \in {"idle", "done"}
    /\ ec' = [ec EXCEPT ![c] = [IdleCaller EXCEPT !.pc = "acquire"]]
    /\ UNCHANGED <<sem, eb, ectxDone>>
    /\ EmbOnly

EC_Acquire(c) ==
    /\ ec[c].pc = "acquire"
    /\ SemHasRoom(sem)
    /\ sem' = sem + 1
    /\ ec' = [ec EXCEPT ![c].pc = "inflight"]
    /\ UNCHANGED <<eb, ectxDone>>
    /\ EmbOnly

EC_CtxDone(c) ==
    /\ ec[c].pc = "acquire"
    /\ ectxDone
    /\ ec' = [ec EXCEPT ![c].pc = "done", ![c].ret = "ctx"]
    /\ UNCHANGED <<sem, eb, ectxDone>>
    /\ EmbOnly

EC_Finish(c) ==
    /\ ec[c].pc = "inflight"
    /\ \E ok \in BOOLEAN :
         ec' = [ec EXCEPT ![c].pc = "done",
                          ![c].ret = IF ok THEN "none" ELSE "http",
                          ![c].vec = IF ok
                                     THEN Embedding(truncateForEmbedding(Text(1)))
                                     ELSE NilVec]
    /\ sem' = sem - 1
    /\ UNCHANGED <<eb, ectxDone>>
    /\ EmbOnly

\* the context of the running embedding calls is cancelled
ECancel ==
    /\ ~ectxDone
    /\ \/ \E b \in Batches : eb[b].pc = "collect"
       \/ \E c \in Callers : ec[c].pc = "acquire"
    /\ ectxDone' = TRUE
    /\ UNCHANGED <<sem, eb, ec>>
    /\ EmbOnly

NextEmbed ==
    \/ \E b \in Batches : \E texts \in InputsOf(b) : EB_Start(b, texts)
    \/ \E b \in Batches : EW_Recv(b)
    \/ \E b \in Batches : EW_Exit(b)
    \/ \E b \in Batches : EW_Acquire(b)
    \/ \E b \in Batches : EW_CtxDone(b)
    \/ \E b \in Batches : EW_Finish(b)
    \/ \E b \in Batches : EB_Close(b)
    \/ \E b \in Batches : EB_Collect(b)
    \/ \E b \in Batches : EB_Return(b)
    \/ \E c \in Callers : EC_Call(c)
    \/ \E c \in Callers : EC_Acquire(c)
    \/ \E c \in Callers : EC_CtxDone(c)
    \/ \E c \in Callers : EC_Finish(c)
    \/ ECancel

InitEmbed ==
    /\ disk = [p \in AllPaths |-> "v1"]
    /\ FreshIndexer
    /\ FreshEmbedder
    /\ FreshWatcher
    /\ FreshQuerySide

SpecEmbed == InitEmbed /\ [][NextEmbed]_vars

\* the Go scheduler runs every goroutine that can take a step, an HTTP
\* request ends, and the senders blocked on the semaphore channel are served
\* in turn whenever it has room
SpecEmbedFair ==
    /\ SpecEmbed
    /\ \A b \in Batches :
          /\ WF_vars(EW_Recv(b))
          /\ WF_vars(EW_Exit(b))
          /\ SF_vars(EW_Acquire(b))
          /\ WF_vars(EW_CtxDone(b))
          /\ WF_vars(EW_Finish(b))
          /\ WF_vars(EB_Close(b))
          /\ WF_vars(EB_Collect(b))
          /\ WF_vars(EB_Return(b))
    /\ \A c \in Callers : WF_vars(EC_Finish(c))

-----------------------------------------------------------------------------
(* Watcher.Start, Watcher.handleEvent and the debounce timers *)

\* fsnotify operations an event may carry
Ops == {"Create", "Write", "Remove", "Rename"}

\* the switch of handleEvent: the FileEvent of an operation, "" when the
\* event is ignored
FileEventOf(op) ==
    CASE op = "Create" -> "create"
      [] op = "Write"  -> "modify"
      [] op = "Remove" -> "delete"
      [] OTHER         -> ""

\* a timer made by time.AfterFunc: the path and event its callback closes
\* over, the ticks left, and where the timer or its goroutine stands:
\* "armed" | "stopped" | "fired" (goroutine started, before pendingMu)
\* | "running" (inside w.handler) | "done"; afterStop: w.handler was called
\* after Watcher.Stop had returned
NewTimer(path, kind) ==
    [path |-> path, kind |-> kind, remaining |-> DebounceTicks, state |-> "armed",
     afterStop |-> FALSE]

\* t.Stop(): stops a timer that has not fired; no effect on any other
StopTimer(ts, n) ==
    IF n # 0 /\ ts[n].state = "armed" THEN [ts EXCEPT ![n].state = "stopped"] ELSE ts

\* Start receives an event from w.watcher.Events and handleEvent maps its
\* operation; an ignored operation returns at once
HE_Receive(p, op) ==
    /\ ~wStopped
    /\ inbox = NoEvent
    /\ nEvents < MaxEvents
    /\ nEvents' = nEvents + 1
    /\ IF FileEventOf(op) = ""
       THEN UNCHANGED <<inbox, sinceLast, burstStart>>
       ELSE /\ inbox' = [path |-> p, kind |-> FileEventOf(op)]
            /\ sinceLast' = [sinceLast EXCEPT ![p] = 0]
            /\ burstStart' = [burstStart EXCEPT ![p] =
                                 IF sinceLast[p] < DebounceTicks /\ @ # 0
                                 THEN @ ELSE Len(timers) + 1]
    /\ UNCHANGED <<pending, timers, wStopped>>
    /\ WatchOnly

\* handleEvent under pendingMu: stop the path's pending timer if there is
\* one, schedule a new one and record it in w.pending
HE_Schedule ==
    /\ inbox # NoEvent
    /\ timers' = Append(StopTimer(timers, pending[inbox.path]),
                        NewTimer(inbox.path, inbox.kind))
    /\ pending' = [pending EXCEPT ![inbox.path] = Len(timers) + 1]
    /\ inbox' = NoEvent
    /\ UNCHANGED <<nEvents, sinceLast, burstStart, wStopped>>
    /\ WatchOnly

\* one tick of the clock; a timer whose time is up fires before the next
Tick ==
    /\ \A n \in 1..Len(timers) :
          timers[n].state = "armed" => timers[n].remaining > 0
    /\ \/ \E n \in 1..Len(timers) : timers[n].state = "armed"
       \/ \E p \in WPaths : sinceLast[p] < DebounceTicks
    /\ timers' = [n \in 1..Len(timers) |->
                    IF timers[n].state = "armed"
                    THEN [timers[n] EXCEPT !.remaining = @ - 1]
                    ELSE timers[n]]
    /\ sinceLast' = [p \in WPaths |-> Min(sinceLast[p] + 1, DebounceTicks)]
    /\ UNCHANGED <<pending, inbox, nEvents, burstStart, wStopped>>
    /\ WatchOnly

\* the debounce duration has passed: the runtime starts the callback of the
\* timer in its own goroutine
TimerFires ==
    \E n \in 1..Len(timers) :
    /\ timers[n].state = "armed"
    /\ timers[n].remaining = 0
    /\ timers' = [timers EXCEPT ![n].state = "fired"]
    /\ UNCHANGED <<pending, inbox, nEvents, sinceLast, burstStart, wStopped>>
    /\ WatchOnly

\* the callback: under pendingMu delete(w.pending, path), then, the lock
\* released, call w.handler(ctx, path, fileEvent)
CB_Dispatch ==
    \E n \in 1..Len(timers) :
    /\ timers[n].state = "fired"
    /\ pending' = [pending EXCEPT ![timers[n].path] = 0]
    /\ timers' = [timers EXCEPT ![n].state = "running", ![n].afterStop = wStopped]
    /\ UNCHANGED <<inbox, nEvents, sinceLast, burstStart, wStopped>>
    /\ WatchOnly

\* w.handler returns (an error is logged)
CB_Return ==
    \E n \in 1..Len(timers) :
    /\ timers[n].state = "running"
    /\ timers' = [timers EXCEPT ![n].state = "done"]
    /\ UNCHANGED <<pending, inbox, nEvents, sinceLast, burstStart, wStopped>>
    /\ WatchOnly

RECURSIVE StopAll(_, _)
\* for _, t := range w.pending { t.Stop() }
StopAll(ts, paths) ==
    IF paths = {} THEN ts
    ELSE LET p == CHOOSE q \in paths : TRUE
         IN  StopAll(StopTimer(ts, pending[p]), paths \ {p})

\* Watcher.Stop: under pendingMu stop every pending timer and replace the
\* map, then close the fsnotify watcher (Start receives no further event)
W_Stop ==
    /\ ~wStopped
    /\ timers' = StopAll(timers, WPaths)
    /\ pending' = [p \in WPaths |-> 0]
    /\ wStopped' = TRUE
    /\ UNCHANGED <<inbox, nEvents, sinceLast, burstStart>>
    /\ WatchOnly

NextWatcher ==
    \/ \E p \in WPaths, op \in Ops : HE_Receive(p, op)
    \/ HE_Schedule
    \/ Tick
    \/ TimerFires
    \/ CB_Dispatch
    \/ CB_Return

InitWatcher ==
    /\ disk = [p \in AllPaths |-> "v1"]
    /\ FreshIndexer
    /\ FreshEmbedder
    /\ FreshWatcher
    /\ FreshQuerySide

SpecWatcher == InitWatcher /\ [][NextWatcher]_vars

\* the watcher with a caller that stops it
NextWatcherStop ==
    \/ \E p \in WPaths, op \in Ops : HE_Receive(p, op)
    \/ HE_Schedule
    \/ Tick
    \/ TimerFires
    \/ CB_Dispatch
    \/ CB_Return
    \/ W_Stop

SpecWatcherStop == InitWatcher /\ [][NextWatcherStop]_vars

-----------------------------------------------------------------------------
(* Claims about the indexer *)

IndexFrames == {t \in Threads : fr[t].op = "IndexFile"}

\* C1: within one IndexFile call, no Store call for the file's chunks is issued
\* before the delete-by-path call of that same IndexFile call has returned.
C1_DeleteBeforeUpsert ==
    \A t \in IndexFrames :
        ("store" \in fr[t].did \/ fr[t].pc \in {"store", "backoff", "stored"})
            => fr[t].delRet /\ "delete" \in fr[t].did

C1_Witness ==
    /\ fr[MainThread].op = "IndexFile"
    /\ fr[MainThread].pc = "stored"
    /\ fr[MainThread].delRet

C3_NoOldIdAfterReindex ==
    \A p \in AllPaths :
        hist[p].phase = "reindexed"
            => \A pt \in store : pt.id \notin hist[p].old

C3_Witness ==
    /\ hist["a.go"].phase = "reindexed"
    /\ hist["a.go"].old # {}
    /\ IdsOfPath(store, "a.go") # {}
    /\ fr[MainThread].ret = Nil

\* C24: if the context is cancelled while storeWithRetry waits between two
\* attempts, the call returns the context error when the wait ends and issues
\* no further upsert attempt for the batch.
C24_BackoffCancellable ==
    [][\A t \in Threads :
          (fr[t].pc = "backoff" /\ ctxDone /\ fr'[t] # fr[t])
              => /\ fr'[t].pc = "ret"
                 /\ fr'[t].ret = "ctx_err"
                 /\ fr'[t].tries = fr[t].tries
                 /\ store' = store]_vars

\* the call was cancelled in a wait after a failed attempt and returned the
\* context error with retries left
C24_Witness ==
    /\ ctxDone
    /\ fr[MainThread].pc = "ret"
    /\ fr[MainThread].ret = "ctx_err"
    /\ Len(fr[MainThread].tries) >= 1
    /\ Len(fr[MainThread].tries) < MaxRetries

AllFail(tries, n) == \A i \in 1..n : tries[i] = "fail"

\* C4: for each batch the upsert is attempted at most max_retries times, a
\* successful attempt is the last attempt of its batch, and the upsert error
\* is returned only when max_retries attempts were made and all of them failed.
C4_RetryUpToMaxRetries ==
    \A t \in IndexFrames :
        LET tr == fr[t].tries IN
        /\ Len(tr) <= MaxRetries
        /\ AllFail(tr, Len(tr) - 1)
        /\ (fr[t].pc = "stored" => Len(tr) >= 1 /\ tr[Len(tr)] = "ok")
        /\ (fr[t].pc \in {"store", "backoff"} => AllFail(tr, Len(tr)))
        /\ (fr[t].ret = "store_err" => Len(tr) = MaxRetries /\ AllFail(tr, Len(tr)))

C4_Witness ==
    /\ fr[MainThread].pc = "ret"
    /\ fr[MainThread].ret = "store_err"
    /\ Len(fr[MainThread].tries) = MaxRetries

\* the call of frame f returned at the hash gate: nothing was done
SkippedAtGate(f) == f.pc = "ret" /\ f.ret = Nil /\ f.hashed /\ f.did = {}

ChunkIds(p, c) == {Chunk(p, c)[i].id : i \in 1..Len(Chunk(p, c))}

\* C27: across any sequence of IndexFile and DeleteFile calls on a path,
\* whenever no call is running and the indexer holds a recorded hash h for
\* the path, the vector store holds the chunks produced from the content
\* whose hash is h.
C27_HashMatchesStore ==
    fr[MainThread].pc \in {"idle", "ret"} =>
        \A p \in AllPaths :
            fileHashes[p] # NoHash =>
                \E c \in Contents : /\ hashFile(c) = fileHashes[p]
                                    /\ ChunkIds(p, c) \subseteq IdsOfPath(store, p)

InSeq(x, sq) == \E i \in 1..Len(sq) : sq[i] = x

\* C5: when the directory traversal succeeds, IndexDirectory returns nil
\* whatever the number of failed IndexFile calls, and every collected file
\* was handed to IndexFile.
C5_WalkNeverFails ==
    (walk.pc = "done" /\ walk.ret # "walk_err")
        => /\ walk.ret = Nil
           /\ \A i \in 1..Len(walk.files) : InSeq(walk.files[i], walk.dispatched)

C5_Witness ==
    /\ walk.pc = "done"
    /\ walk.ret = Nil
    /\ Len(walk.files) >= 2
    /\ Len(walk.errChan) >= 1
    /\ \E p \in GoPaths : fileHashes[p] # NoHash

\* C22: the directory walk always completes: for any number of files, any
\* worker count and any pattern of failing IndexFile calls, every worker
\* terminates and IndexDirectory returns; no send on the file channel or the
\* error channel blocks forever.
C22_WalkCompletes ==
    (walk.pc # "idle") ~> (walk.pc = "done" /\ \A w \in Workers : wpc[w] = "off")

\* the call returned with every collected file failed and every error sent
C22_Witness ==
    /\ walk.pc = "done"
    /\ Len(walk.files) >= 2
    /\ Len(walk.errChan) = Len(walk.files)
    /\ \A w \in Workers : wpc[w] = "off"

\* how often x occurs in the sequence sq
Occurrences(x, sq) == Cardinality({i \in 1..Len(sq) : sq[i] = x})

\* C29: in IndexDirectory every collected file is passed to IndexFile exactly
\* once, by exactly one worker: no file is received from the channel more
\* often than it was collected, and when the call is done each collected file
\* has been received as often as it was collected.
C29_EachFileOnce ==
    \A p \in AllPaths :
        /\ Occurrences(p, walk.dispatched) <= Occurrences(p, walk.files)
        /\ Occurrences(p, walk.files) <= 1
        /\ Cardinality({w \in Workers : wpc[w] = "busy" /\ fr[w].path = p}) <= 1
        /\ walk.pc = "done" =>
              Occurrences(p, walk.dispatched) = Occurrences(p, walk.files)

\* two files collected, both indexed by the time the call is done
C29_Witness ==
    /\ walk.pc = "done"
    /\ \A p \in GoPaths :
          Occurrences(p, walk.files) = 1 /\ Occurrences(p, walk.dispatched) = 1

-----------------------------------------------------------------------------
(* Claims about the embedder *)

\* what EmbedBatch must return for texts when every embedding succeeds
ExpectedVectors(texts) ==
    [i \in 1..Len(texts) |-> Embedding(truncateForEmbedding(texts[i]))]

\* C6: an EmbedBatch call on N texts in which every single embedding
\* succeeded returns, whatever the order in which its workers delivered,
\* N vectors and no error, the i-th vector being the one produced for the
\* i-th text.
C6_BatchPreservesOrder ==
    \A b \in Batches :
        (eb[b].pc = "done" /\ eb[b].firstErr = NoErr)
            => /\ eb[b].ret.err = "none"
               /\ Len(eb[b].ret.vectors) = Len(eb[b].texts)
               /\ eb[b].ret.vectors = ExpectedVectors(eb[b].texts)

\* a batch of MaxTexts texts returned after its results arrived out of order
C6_Witness ==
    \E b \in Batches :
        /\ eb[b].pc = "done"
        /\ eb[b].firstErr = NoErr
        /\ Len(eb[b].texts) = MaxTexts
        /\ eb[b].reordered
        /\ eb[b].ret.vectors = ExpectedVectors(eb[b].texts)

\* C7: once a single embedding call of an EmbedBatch call has failed, the
\* batch returns no vectors and an error: the first error sent to the
\* results channel, carrying the index of the text that failed.
C7_BatchFailsWithFirstError ==
    \A b \in Batches :
        (eb[b].pc = "done" /\ eb[b].firstErr # NoErr)
            => /\ eb[b].ret.vectors = <<>>
               /\ eb[b].ret.err = eb[b].firstErr.err
               /\ eb[b].ret.index = eb[b].firstErr.index

\* a batch that failed on its second text while a later error, for its first
\* text, is still in the results channel
C7_Witness ==
    \E b \in Batches :
        /\ eb[b].pc = "done"
        /\ eb[b].ret.err = "http"
        /\ eb[b].ret.index = 1
        /\ \E k \in 1..Len(eb[b].results) :
              eb[b].results[k].index = 0 /\ eb[b].results[k].err # "none"

\* the embedding requests in flight, over every EmbedBatch worker and every
\* direct Embed caller
InFlight ==
    Cardinality(UNION {{<<b, job>> : job \in eb[b].infl} : b \in Batches})
        + Cardinality({c \in Callers : ec[c].pc = "inflight"})

\* the Embed calls blocked on the semaphore
Blocked ==
    Cardinality(UNION {{<<b, job>> : job \in eb[b].acq} : b \in Batches})
        + Cardinality({c \in Callers : ec[c].pc = "acquire"})

\* C8: at every instant at most MaxConcurrent embedding requests are in
\* flight, counted over all running EmbedBatch and Embed calls, and the
\* semaphore holds one token per request in flight.
C8_SemaphoreCapsInFlight ==
    /\ InFlight <= MaxConcurrent
    /\ sem = InFlight

\* the semaphore is full with requests of two different EmbedBatch calls
\* while another Embed call is blocked on it
C8_Witness ==
    /\ InFlight = MaxConcurrent
    /\ \A b \in Batches : eb[b].infl # {}
    /\ Blocked > 0
\* every goroutine EmbedBatch call b started has finished: no worker holds a
\* job or waits for one, the wait group is at zero and the goroutine that
\* waits on it has closed the results channel
GoroutinesDone(b) ==
    /\ eb[b].wg = 0
    /\ eb[b].idle = 0
    /\ eb[b].acq = {}
    /\ eb[b].infl = {}
    /\ eb[b].closed

\* C28: every goroutine started by EmbedBatch terminates, also when the call
\* returns early on the first error: no worker blocks forever sending its
\* result, and the goroutine that waits for the workers and closes the
\* results channel finishes.
C28_GoroutinesTerminate ==
    \A b \in Batches : (eb[b].texts # <<>>) ~> GoroutinesDone(b)

\* a call that returned on the first error, a result left in the channel,
\* and all its goroutines finished
C28_Witness ==
    \E b \in Batches :
        /\ eb[b].pc = "done"
        /\ eb[b].ret.err # "none"
        /\ eb[b].results # <<>>
        /\ GoroutinesDone(b)

-----------------------------------------------------------------------------
(* Claims about the watcher *)

\* the timers scheduled for the events of the current burst of path p
BurstTimers(p) ==
    {n \in 1..Len(timers) :
        timers[n].path = p /\ burstStart[p] # 0 /\ n >= burstStart[p]}

\* the handler invocations made for the current burst of path p
Invoked(p) == {n \in BurstTimers(p) : timers[n].state \in {"running", "done"}}

\* the burst of path p is over: no event of it is still to be scheduled, no
\* timer of it is still to run, and the debounce interval has passed
BurstOver(p) ==
    /\ BurstTimers(p) # {}
    /\ inbox.path # p
    /\ sinceLast[p] = DebounceTicks
    /\ \A n \in BurstTimers(p) : timers[n].state \in {"stopped", "done"}

Last(S) == CHOOSE n \in S : \A m \in S : m <= n

\* C9: for a burst of create/write/remove events on one path, each arriving
\* less than the debounce interval after the previous one, the handler is
\* invoked at most once while the burst lasts and, once it is over, exactly
\* once, with the event kind of the last event of the burst.
C9_OneInvocationPerBurst ==
    \A p \in WPaths :
        /\ Cardinality(Invoked(p)) <= 1
        /\ BurstOver(p) =>
              /\ Cardinality(Invoked(p)) = 1
              /\ \A n \in Invoked(p) :
                    timers[n].kind = timers[Last(BurstTimers(p))].kind

\* C10: no two handler invocations, for the same path or for different
\* paths, execute at the same time.
C10_HandlersSerialized ==
    Cardinality({n \in 1..Len(timers) : timers[n].state = "running"}) <= 1

\* C25: Watcher.Stop cancels all pending debounce timers: once Stop has
\* returned, no handler invocation is started for an event received before
\* Stop.
C25_NoHandlerAfterStop ==
    \A n \in 1..Len(timers) : ~timers[n].afterStop

-----------------------------------------------------------------------------
(* Graph: AddNode, AddEdge, GetRelated, GetIncoming *)

\* RelationImport, RelationCall, RelationDefine
Relations == {"import", "call", "define"}

\* the empty relation filter
AnyRelation == ""

Range(f) == {f[i] : i \in DOMAIN f}

\* the To (or From) ids of a list of edges, in order
Targets(es) == [i \in 1..Len(es) |-> es[i].To]
Sources(es) == [i \in 1..Len(es) |-> es[i].From]

\* g.nodes[node.ID] = node
AddNode(g, id) == [g EXCEPT !.nodes = @ \cup {id}]

\* the incoming adjacency map: the edge is also filed under its target
AddIncoming(g, edge) == [g EXCEPT !.incoming[edge.To] = Append(@, edge)]

\* g.edges[from] = append(g.edges[from], edge)
AddEdge(g, from, to, relation) ==
    LET edge == [From |-> from, To |-> to, Relation |-> relation]
    IN  AddIncoming([g EXCEPT !.edges[from] = Append(@, edge)], edge)

GetRelated_AnyRelation(g, nodeID, relationType) ==
    Targets(SelectSeq(g.edges[nodeID], LAMBDA e : e.To \in g.nodes))

\* the nodes at the end of the outgoing edges of nodeID whose relation equals
\* relationType, in insertion order (an edge to an id that is no node is
\* skipped)
GetRelated(g, nodeID, relationType) ==
    Targets(SelectSeq(g.edges[nodeID],
                      LAMBDA e : e.Relation = relationType /\ e.To \in g.nodes))

\* the nodes at the start of the incoming edges of nodeID, filtered by
\* relation; an empty filter returns all
GetIncoming(g, nodeID, relationType) ==
    Sources(SelectSeq(g.incoming[nodeID],
                      LAMBDA e : /\ relationType \in {AnyRelation, e.Relation}
                                 /\ e.From \in g.nodes))

\* number of edges in the graph (Stats()["edges"])
EdgeCount(g) == Cardinality(UNION {{<<n, i>> : i \in 1..Len(g.edges[n])} : n \in GIds})

G_AddNode(id) ==
    /\ id \notin graph.nodes
    /\ graph' = AddNode(graph, id)
    /\ GraphOnly

G_AddEdge(from, to, relation) ==
    /\ EdgeCount(graph) < MaxEdges
    /\ graph' = AddEdge(graph, from, to, relation)
    /\ GraphOnly

\* Graph.Clear
G_Clear ==
    /\ graph # NewGraph
    /\ graph' = NewGraph
    /\ GraphOnly

NextGraph ==
    \/ \E id \in GIds : G_AddNode(id)
    \/ \E from \in GIds, to \in GIds, relation \in Relations :
          G_AddEdge(from, to, relation)
    \/ G_Clear

InitGraph ==
    /\ disk = [p \in AllPaths |-> "v1"]
    /\ FreshIndexer
    /\ FreshEmbedder
    /\ FreshWatcher
    /\ FreshQuerySide

SpecGraph == InitGraph /\ [][NextGraph]_vars

-----------------------------------------------------------------------------
(* Claims about the graph *)

C17_EmptyFilterReturnsAll ==
    \A id \in GIds :
        Range(GetRelated(graph, id, AnyRelation))
            = {e.To : e \in {x \in Range(graph.edges[id]) : x.To \in graph.nodes}}
-----------------------------------------------------------------------------
(* Builder: Build, Rebuild and the graph's name index *)

\* one entry of chunk.Metadata["calls"]: funcName is the part after the last
\* ".", dot says whether the entry contains a "."
Call(dot, funcName) == [dot |-> dot, funcName |-> funcName]

\* a code chunk as the builder reads it: ID, ChunkType, Metadata["name"],
\* ["receiver"], ["calls"], ["imports"] and ["types"] (the lists split at ",")
BuildChunk(id, chunkType, name, receiver, calls, imports, types) ==
    [ID |-> id, ChunkType |-> chunkType, name |-> name, receiver |-> receiver,
     calls |-> calls, imports |-> imports, types |-> types]

\* the chunks handed to the builder; two of them are versions of chunk "2"
ChunkPool ==
    {BuildChunk("1", "function", "main", "",
                <<Call(FALSE, "helper"), Call(TRUE, "Run")>>, <<"Svc">>, <<>>),
     BuildChunk("2", "function", "helper", "", <<>>, <<>>, <<>>),
     BuildChunk("3", "method", "Run", "Svc", <<Call(FALSE, "helper")>>, <<>>, <<>>),
     BuildChunk("2", "class", "", "", <<>>, <<>>, <<"Svc", "Other">>),
     BuildChunk("1", "class", "Svc", "", <<>>, <<>>, <<>>)}

\* the chunk lists of a Build or Rebuild call
ChunkLists ==
    {<<>>} \cup {<<a>> : a \in ChunkPool} \cup {<<a, b>> : a \in ChunkPool, b \in ChunkPool}

\* Graph.AddNode with the node record: g.nodes[node.ID] = node, and the id is
\* appended to the index entry of a non-empty name
Graph_AddNode(g, node) ==
    LET g1 == [g EXCEPT !.nodes[node.ID] = node]
    IN  IF node.Name # "" THEN [g1 EXCEPT !.index[node.Name] = Append(@, node.ID)]
        ELSE g1

\* Graph.AddEdge on the builder's graph
Graph_AddEdge(g, from, to, relation) ==
    [g EXCEPT !.edges[from] = Append(@, [From |-> from, To |-> to, Relation |-> relation])]

\* Graph.GetNode: the node and whether it exists
GetNode(g, id) == [node |-> g.nodes[id], exists |-> g.nodes[id] # NoNode]

\* Graph.GetNodesByName: the nodes of the ids indexed under name, in index
\* order; an id without a node is skipped
GetNodesByName(g, name) ==
    IF name \notin Names THEN <<>>
    ELSE LET ids == SelectSeq(g.index[name], LAMBDA id : g.nodes[id] # NoNode)
         IN  [i \in 1..Len(ids) |-> g.nodes[ids[i]]]

\* the stale clear: nodes and edges replaced, the name index kept
Clear_KeepIndex(g) == [EmptyGraph EXCEPT !.index = g.index]

\* Graph.Clear: the three maps are replaced by empty ones
Clear(g) == EmptyGraph

\* first pass of Build: the node of a chunk
NodeOf(chunk) ==
    [ID |-> chunk.ID, Type |-> chunk.ChunkType, Name |-> chunk.name,
     receiver |-> chunk.receiver]

RECURSIVE AddNodes(_, _)
AddNodes(g, chunks) ==
    IF chunks = <<>> THEN g
    ELSE AddNodes(Graph_AddNode(g, NodeOf(Head(chunks))), Tail(chunks))

RECURSIVE AddEdgesTo(_, _, _, _)
\* for _, target := range targetNodes { AddEdge(from, target.ID, relation) }
AddEdgesTo(g, from, targetNodes, relation) ==
    IF targetNodes = <<>> THEN g
    ELSE AddEdgesTo(Graph_AddEdge(g, from, Head(targetNodes).ID, relation),
                    from, Tail(targetNodes), relation)

\* edges to the parent ids of a method chunk
RECURSIVE AddEdgesFrom(_, _, _, _)
AddEdgesFrom(g, parentNodes, to, relation) ==
    IF parentNodes = <<>> THEN g
    ELSE AddEdgesFrom(Graph_AddEdge(g, Head(parentNodes).ID, to, relation),
                      Tail(parentNodes), to, relation)

\* Builder.findMethodsByReceiver: the nodes named methodName that have a
\* receiver
findMethodsByReceiver(g, methodName) ==
    SelectSeq(GetNodesByName(g, methodName), LAMBDA node : node.receiver # "")

RECURSIVE addImports(_, _, _)
\* the import half of addEdgesForChunk
addImports(g, chunk, importList) ==
    IF importList = <<>> THEN g
    ELSE LET imp == Head(importList)
             g1 == IF imp # "" THEN AddEdgesTo(g, chunk.ID, GetNodesByName(g, imp), "import")
                   ELSE g
         IN  addImports(g1, chunk, Tail(importList))

RECURSIVE addCalls(_, _, _)
\* the call half of addEdgesForChunk: exact name match first, then the
\* receiver-aware match for a call written with a "."
addCalls(g, chunk, callList) ==
    IF callList = <<>> THEN g
    ELSE LET call == Head(callList)
             byName == GetNodesByName(g, call.funcName)
             targetNodes == IF Len(byName) = 0 /\ call.dot
                            THEN findMethodsByReceiver(g, call.funcName)
                            ELSE byName
             g1 == IF call.funcName = "" /\ ~call.dot THEN g
                   ELSE AddEdgesTo(g, chunk.ID, targetNodes, "call")
         IN  addCalls(g1, chunk, Tail(callList))

\* Builder.addEdgesForChunk
addEdgesForChunk(g, chunk) == addCalls(addImports(g, chunk, chunk.imports), chunk, chunk.calls)

RECURSIVE AddAllEdges(_, _)
\* second pass of Build
AddAllEdges(g, chunks) ==
    IF chunks = <<>> THEN g
    ELSE AddAllEdges(addEdgesForChunk(g, Head(chunks)), Tail(chunks))

RECURSIVE FirstById(_, _)
\* the nodes of a list whose id is not in seenIds, each id once
FirstById(nodes, seenIds) ==
    IF nodes = <<>> THEN <<>>
    ELSE IF Head(nodes).ID \in seenIds THEN FirstById(Tail(nodes), seenIds)
    ELSE <<Head(nodes)>> \o FirstById(Tail(nodes), seenIds \cup {Head(nodes).ID})

\* Builder.findTypeByName: the class or struct nodes named typeName, then the
\* nodes of the class chunks that list typeName in their types metadata
findTypeByName(g, typeName, chunks) ==
    LET byName == SelectSeq(GetNodesByName(g, typeName),
                            LAMBDA n : n.Type \in {"class", "struct"})
        listing == SelectSeq(chunks,
                             LAMBDA chunk : /\ chunk.ChunkType = "class"
                                            /\ \E i \in 1..Len(chunk.types) : chunk.types[i] = typeName
                                            /\ GetNode(g, chunk.ID).exists)
        listed == [i \in 1..Len(listing) |-> GetNode(g, listing[i].ID).node]
    IN  FirstById(byName \o listed, {})

RECURSIVE addDefineEdges(_, _, _)
\* third pass of Build: a define edge from the type to each of its methods;
\* rest is the part of chunks still to visit
addDefineEdges(g, rest, chunks) ==
    IF rest = <<>> THEN g
    ELSE LET chunk == Head(rest)
             g1 == IF chunk.ChunkType # "method" \/ chunk.receiver = "" THEN g
                   ELSE AddEdgesFrom(g, findTypeByName(g, chunk.receiver, chunks),
                                     chunk.ID, "define")
         IN  addDefineEdges(g1, Tail(rest), chunks)

\* Builder.Build on the graph g
Build(g, chunks) == addDefineEdges(AddAllEdges(AddNodes(g, chunks), chunks), chunks, chunks)

\* Builder.Rebuild: b.graph.Clear(), then Build
Rebuild(g, chunks) == Build(Clear(g), chunks)

\* the ids that have a node, the names that have an index entry, and the
\* edges of a graph
NodeIds(g) == {n \in GIds : g.nodes[n] # NoNode}
IndexedNames(g) == {nm \in Names : g.index[nm] # <<>>}
EdgeSet(g) == UNION {Range(g.edges[n]) : n \in GIds}

\* what the graph held before a call
Before(g) == [ids |-> NodeIds(g), names |-> IndexedNames(g), edges |-> EdgeSet(g)]

B_Build(chunks) ==
    /\ builder.builds < MaxBuilds
    /\ builder' = [graph |-> Build(builder.graph, chunks), last |-> "Build",
                   chunks |-> chunks, builds |-> builder.builds + 1,
                   before |-> Before(builder.graph)]
    /\ BuilderOnly

B_Rebuild(chunks) ==
    /\ builder' = [graph |-> Rebuild(builder.graph, chunks), last |-> "Rebuild",
                   chunks |-> chunks, builds |-> 1,
                   before |-> Before(builder.graph)]
    /\ BuilderOnly

NextBuilder ==
    \/ \E chunks \in ChunkLists : B_Build(chunks)
    \/ \E chunks \in ChunkLists : B_Rebuild(chunks)

InitBuilder ==
    /\ disk = [p \in AllPaths |-> "v1"]
    /\ FreshIndexer
    /\ FreshEmbedder
    /\ FreshWatcher
    /\ FreshQuerySide

SpecBuilder == InitBuilder /\ [][NextBuilder]_vars

-----------------------------------------------------------------------------
(* Claims about the builder *)

\* C21: after Rebuild(chunks) the graph holds exactly the nodes, the edges and
\* the name-index entries that Build(chunks) produces on an empty graph;
\* nothing the graph held before remains.
C21_RebuildIsBuildOnEmpty ==
    builder.last = "Rebuild" => builder.graph = Build(EmptyGraph, builder.chunks)

\* Rebuild on a graph that held a node, an index entry and an edge the new
\* chunks do not produce, and the new chunks produce an edge of their own
C21_Witness ==
    /\ builder.last = "Rebuild"
    /\ builder.before.ids \ NodeIds(builder.graph) # {}
    /\ builder.before.names \ IndexedNames(builder.graph) # {}
    /\ builder.before.edges \ EdgeSet(builder.graph) # {}
    /\ EdgeSet(builder.graph) # {}

-----------------------------------------------------------------------------
(* ContextExpander.Expand and getRelatedChunks *)

\* what store.Get(id) gives for a chunk id: the chunk, an error, or (the
\* mock store of the tests) nil without an error
GetOutcomes == {"chunk", "err", "nil"}

\* a search result: the id of its chunk ("" for a nil chunk or an empty id)
\* and its Source
Result(id, source) == [id |-> id, source |-> source]

\* the first n elements of seq (an append loop that breaks at the limit)
Take(seq, n) == SubSeq(seq, 1, IF n < 0 THEN 0 ELSE Min(n, Len(seq)))

Seen_Never(st, node) == FALSE

\* `if seen[node.ID] { continue }`
Seen(st, node) == node \in st.seen

RECURSIVE Collect(_, _, _, _, _, _, _)
RECURSIVE Callees(_, _, _, _, _, _)
RECURSIVE getRelatedChunks(_, _, _, _, _)

\* the loop over the nodes of one category without recursion (callers,
\* parent type, child methods, imports); st is (related, seen); skipNil:
\* the category drops a nil chunk before it marks the node seen
Collect(E, nodes, i, st, currentCount, source, skipNil) ==
    IF i > Len(nodes) THEN st
    ELSE LET node == nodes[i] IN
         IF Seen(st, node)
         THEN Collect(E, nodes, i + 1, st, currentCount, source, skipNil)
         ELSE IF currentCount + Len(st.related) >= E.cfg.MaxChunks
         THEN st
         ELSE IF E.store[node] = "err" \/ (skipNil /\ E.store[node] = "nil")
         THEN Collect(E, nodes, i + 1, st, currentCount, source, skipNil)
         ELSE Collect(E, nodes, i + 1,
                      [seen |-> st.seen \cup {node},
                       related |-> Append(st.related,
                                          Result(IF E.store[node] = "nil" THEN ""
                                                 ELSE node, source))],
                      currentCount, source, skipNil)

\* the loop over the called functions, which recurses into each new node
Callees(E, nodes, i, st, depth, currentCount) ==
    IF i > Len(nodes) THEN st
    ELSE LET node == nodes[i] IN
         IF Seen(st, node)
         THEN Callees(E, nodes, i + 1, st, depth, currentCount)
         ELSE IF currentCount + Len(st.related) >= E.cfg.MaxChunks
         THEN st
         ELSE IF E.store[node] = "err"
         THEN Callees(E, nodes, i + 1, st, depth, currentCount)
         ELSE LET st1 == [seen |-> st.seen \cup {node},
                          related |-> Append(st.related,
                                             Result(IF E.store[node] = "nil" THEN ""
                                                    ELSE node, "expansion:callee"))]
                  count1 == currentCount + Len(st1.related)
              IN  IF depth + 1 < E.cfg.MaxDepth /\ count1 < E.cfg.MaxChunks
                  THEN LET nested == getRelatedChunks(E, node, st1.seen, depth + 1, count1)
                       IN  Callees(E, nodes, i + 1,
                                   [seen |-> nested.seen,
                                    related |-> st1.related \o
                                        Take(nested.related, E.cfg.MaxChunks - count1)],
                                   depth, currentCount)
                  ELSE Callees(E, nodes, i + 1, st1, depth, currentCount)

\* getRelatedChunks: the related results of chunkID and the seen map as the
\* call leaves it
getRelatedChunks(E, chunkID, seen, depth, currentCount) ==
    LET B  == E.cfg.MaxChunks
        s0 == [seen |-> seen, related |-> <<>>]
        s1 == IF E.cfg.IncludeCalledFunctions
              THEN Callees(E, GetRelated(E.g, chunkID, "call"), 1, s0, depth, currentCount)
              ELSE s0
        s2 == IF E.cfg.IncludeCallers /\ currentCount + Len(s1.related) < B
              THEN Collect(E, GetIncoming(E.g, chunkID, "call"), 1, s1, currentCount,
                           "expansion:caller", FALSE)
              ELSE s1
        s3 == IF E.cfg.IncludeParentType /\ currentCount + Len(s2.related) < B
              THEN Collect(E, GetIncoming(E.g, chunkID, "define"), 1, s2, currentCount,
                           "expansion:parent_type", TRUE)
              ELSE s2
        s4 == IF E.cfg.IncludeChildMethods /\ currentCount + Len(s3.related) < B
              THEN Collect(E, GetRelated(E.g, chunkID, "define"), 1, s3, currentCount,
                           "expansion:child_method", TRUE)
              ELSE s3
        s5 == IF E.cfg.IncludeImports /\ currentCount + Len(s4.related) < B
              THEN Collect(E, GetRelated(E.g, chunkID, "import"), 1, s4, currentCount,
                           "expansion:import", FALSE)
              ELSE s4
    IN  IF depth >= E.cfg.MaxDepth \/ currentCount >= B THEN s0 ELSE s5

RECURSIVE ExpandEach(_, _, _, _, _)

\* the second loop of Expand, over the original results
ExpandEach(E, results, i, expanded, seen) ==
    IF i > Len(results) THEN expanded
    ELSE IF results[i].id = ""
    THEN ExpandEach(E, results, i + 1, expanded, seen)
    ELSE IF Len(expanded) >= E.cfg.MaxChunks
    THEN expanded
    ELSE LET rc == getRelatedChunks(E, results[i].id, seen, 0, Len(expanded))
         IN  ExpandEach(E, results, i + 1,
                        expanded \o Take(rc.related, E.cfg.MaxChunks - Len(expanded)),
                        rc.seen)

\* the original results that have a chunk with an id
Originals(results) == SelectSeq(results, LAMBDA r : r.id # "")

\* Expand: the results as they are without a graph; else the originals
\* followed by their related chunks
Expand(E, results) ==
    IF ~E.hasGraph THEN results
    ELSE ExpandEach(E, results, 1, Originals(results),
                    {Originals(results)[k].id : k \in 1..Len(Originals(results))})

\* the ids and relations of the edges of the graphs handed to the expander
GIdSeq == <<"1", "2", "3">>
EdgeRelations == <<"call", "define", "import">>
EdgeKinds == Len(GIdSeq) * Len(GIdSeq) * Len(EdgeRelations)

\* the k-th edge of the universe, k in 0..EdgeKinds-1
EdgeAt(k) ==
    [From |-> GIdSeq[(k \div (Len(GIdSeq) * Len(EdgeRelations))) + 1],
     To |-> GIdSeq[((k \div Len(EdgeRelations)) % Len(GIdSeq)) + 1],
     Relation |-> EdgeRelations[(k % Len(EdgeRelations)) + 1]]

\* the AddEdge call sequences tried: up to MaxEdges edges, repeats allowed,
\* in the order of the universe (the order of calls for different source
\* nodes does not change the graph)
EdgeLists ==
    {es \in UNION {[1..n -> 0..(EdgeKinds - 1)] : n \in 0..MaxEdges} :
        \A i \in 1..(Len(es) - 1) : es[i] <= es[i + 1]}

RECURSIVE BuildGraph(_, _, _)
BuildGraph(g, es, i) ==
    IF i > Len(es) THEN g
    ELSE BuildGraph(AddEdge(g, EdgeAt(es[i]).From, EdgeAt(es[i]).To,
                            EdgeAt(es[i]).Relation), es, i + 1)

\* a graph holding every id as a node, after the AddEdge calls es
GraphOf(es) ==
    BuildGraph([NewGraph EXCEPT !.nodes = GIds], es, 1)

\* DefaultExpandConfig's switches, and every category switched on
DefaultFlags ==
    [IncludeCalledFunctions |-> TRUE, IncludeCallers |-> TRUE,
     IncludeImports |-> FALSE, IncludeParentType |-> TRUE,
     IncludeChildMethods |-> TRUE]
AllFlags ==
    [IncludeCalledFunctions |-> TRUE, IncludeCallers |-> TRUE,
     IncludeImports |-> TRUE, IncludeParentType |-> TRUE,
     IncludeChildMethods |-> TRUE]

\* the depths tried: DefaultExpandConfig's 1, and 2 (nested expansion)
Depths == {1, 2}

ExpandConfigs ==
    {[IncludeCalledFunctions |-> f.IncludeCalledFunctions,
      IncludeCallers |-> f.IncludeCallers,
      IncludeImports |-> f.IncludeImports,
      IncludeParentType |-> f.IncludeParentType,
      IncludeChildMethods |-> f.IncludeChildMethods,
      MaxDepth |-> dd, MaxChunks |-> b] :
        f \in {DefaultFlags, AllFlags}, dd \in Depths, b \in 1..MaxBudget}

\* the initial result lists tried: none, one, two, a repeated id, a result
\* without an id
SeedLists ==
    {[i \in 1..Len(ids) |-> Result(ids[i], "initial")] :
        ids \in {<<>>, <<"1">>, <<"1", "2">>, <<"1", "1">>, <<"", "1">>}}

\* the chunk stores tried: every chunk present but, possibly, that of "2"
Stores == {[n \in GIds |-> IF n = "2" THEN o ELSE "chunk"] : o \in GetOutcomes}

\* one Expand call on the graph
X_Expand ==
    /\ fnArgs.fn = "Expand"
    /\ ~fnRet.done
    /\ fnRet' = [done |-> TRUE,
                 results |-> Expand([g |-> graph, hasGraph |-> fnArgs.hasGraph,
                                     store |-> fnArgs.store, cfg |-> fnArgs.cfg],
                                    fnArgs.results)]
    /\ UNCHANGED <<fnArgs>>
    /\ FnOnly

NextExpand == X_Expand

InitExpand ==
    /\ disk = [p \in AllPaths |-> "v1"]
    /\ FreshIndexer
    /\ FreshEmbedder
    /\ FreshWatcher
    /\ redis = NewRedis
    /\ sparseLog = NoSparseCall
    /\ \E es \in EdgeLists : graph = GraphOf(es)
    /\ builder = NewBuilder
    /\ \E hasGraph \in BOOLEAN, st \in Stores, cfg \in ExpandConfigs, rs \in SeedLists :
          /\ hasGraph \/ EdgeCount(graph) = 0
          /\ fnArgs = [fn |-> "Expand", hasGraph |-> hasGraph, store |-> st,
                       cfg |-> cfg, results |-> rs]
    /\ fnRet = NotReturned

SpecExpand == InitExpand /\ [][NextExpand]_vars

-----------------------------------------------------------------------------
(* Claims about the context expander *)

ExpandReturned == fnArgs.fn = "Expand" /\ fnRet.done

\* the results Expand added to the originals
Added ==
    SubSeq(fnRet.results, Len(Originals(fnArgs.results)) + 1, Len(fnRet.results))

\* C11: an Expand call with budget max_chunks = B returns at most B results,
\* for every initial result list and every graph.
C11_AtMostBudget ==
    ExpandReturned => Len(fnRet.results) <= fnArgs.cfg.MaxChunks

\* C12: no chunk id occurs twice among the results Expand added, and no
\* added result has the id of an initial result.
C12_NoSeenIdAdded ==
    (ExpandReturned /\ fnArgs.hasGraph) =>
        /\ \A i \in 1..Len(Added), j \in 1..Len(Added) :
              (i # j /\ Added[i].id # "") => Added[i].id # Added[j].id
        /\ \A i \in 1..Len(Added), k \in 1..Len(fnArgs.results) :
              Added[i].id # "" => Added[i].id # fnArgs.results[k].id

\* a node that two seeds both call, added once
C12_Witness ==
    /\ ExpandReturned
    /\ fnArgs.hasGraph
    /\ fnArgs.results = <<Result("1", "initial"), Result("2", "initial")>>
    /\ \A k \in 1..2 : "3" \in Range(GetRelated(graph, fnArgs.results[k].id, "call"))
    /\ Len(Added) = 1
    /\ Added[1].id = "3"

\* C30: a graph neighbour for which the chunk store has no chunk (an error,
\* or no chunk and no error) is skipped in every category: every result the
\* expander adds carries a chunk.
C30_AddedCarryChunk ==
    (ExpandReturned /\ fnArgs.hasGraph) =>
        \A i \in 1..Len(Added) : Added[i].id # ""

\* the neighbours of node n over the edges of the enabled categories
CategoryNeighbours(n) ==
    (IF fnArgs.cfg.IncludeCalledFunctions THEN Range(GetRelated(graph, n, "call")) ELSE {})
    \cup (IF fnArgs.cfg.IncludeCallers THEN Range(GetIncoming(graph, n, "call")) ELSE {})
    \cup (IF fnArgs.cfg.IncludeParentType THEN Range(GetIncoming(graph, n, "define")) ELSE {})
    \cup (IF fnArgs.cfg.IncludeChildMethods THEN Range(GetRelated(graph, n, "define")) ELSE {})
    \cup (IF fnArgs.cfg.IncludeImports THEN Range(GetRelated(graph, n, "import")) ELSE {})

RECURSIVE ReachWithin(_, _)
\* the nodes at most d category edges away from a node of S
ReachWithin(S, d) ==
    IF d = 0 THEN S
    ELSE ReachWithin(S \cup UNION {CategoryNeighbours(n) : n \in S}, d - 1)

\* C26: with every chunk in the store and the budget not exhausted, every
\* chunk at most max_depth edges of enabled categories away from a seed is
\* in the output.
C26_ReachableIncluded ==
    (/\ ExpandReturned
     /\ fnArgs.hasGraph
     /\ \A n \in GIds : fnArgs.store[n] = "chunk"
     /\ Len(fnRet.results) < fnArgs.cfg.MaxChunks) =>
        \A n \in ReachWithin({fnArgs.results[k].id : k \in 1..Len(fnArgs.results)} \ {""},
                             fnArgs.cfg.MaxDepth) :
            \E i \in 1..Len(fnRet.results) : fnRet.results[i].id = n

-----------------------------------------------------------------------------
(* The sparse index: internal/retrieval/redis_index.go *)

\* the words of a chunk's content, as FieldsFunc cuts them
Words == {"t1", "T2", "t1_t2"}

\* splitCamelCase after the snake_case split: the lower-case parts of a word
tokenize(word) ==
    CASE word = "t1"    -> <<"t1">>
      [] word = "T2"    -> <<"t2">>
      [] word = "t1_t2" -> <<"t1", "t2">>

RECURSIVE Preprocess(_)
\* QueryPreprocessor.Preprocess(content).Tokens: the tokens of every word, in order
Preprocess(content) ==
    IF content = <<>> THEN <<>>
    ELSE tokenize(Head(content)) \o Preprocess(Tail(content))

\* the chunk contents handed to the sparse index
ChunkContents == {<<>>, <<"T2", "t1_t2">>, <<"t1", "t1">>}

\* domain.CodeChunk: the fields AddToInvertedIndex reads
SparseChunks == [ID : Docs, Content : ChunkContents]

\* the batches of chunks handed to AddToInvertedIndex: up to one chunk per
\* document id, and the same id possibly twice
ChunkBatches == UNION {[1..n -> SparseChunks] : n \in 0..Cardinality(Docs)}

\* the number of occurrences of token in tokens
Count(tokens, token) == Cardinality({i \in 1..Len(tokens) : tokens[i] = token})

\* IndexedDocument of a chunk: Length the number of tokens, Tokens the term
\* frequencies of the tokens that occur
IndexedDocument(chunk) ==
    LET tokens == Preprocess(chunk.Content)
        occurring == {tokens[i] : i \in 1..Len(tokens)}
    IN  [ID |-> chunk.ID, Length |-> Len(tokens),
         Tokens |-> [t \in occurring |-> Count(tokens, t)]]

RECURSIVE Gcd(_, _)
Gcd(a, b) == IF b = 0 THEN a ELSE Gcd(b, a % b)

Abs(x) == IF x < 0 THEN 0 - x ELSE x

\* num/den in lowest terms with a positive denominator; den = 0 is the
\* outcome of a float division by zero
Norm(num, den) ==
    IF den = 0 THEN Rat(0, 0)
    ELSE LET g == Gcd(Abs(num), Abs(den))
             sgn == IF den < 0 THEN 0 - 1 ELSE 1
         IN  Rat(sgn * (num \div g), sgn * (den \div g))

RECURSIVE TotalLength(_)
TotalLength(docs) ==
    IF docs = <<>> THEN 0 ELSE Head(docs).Length + TotalLength(Tail(docs))

\* the mutant of AddOne: the posting lists and frequencies are left alone
AddOne_NoPosting(rd, doc) ==
    [rd EXCEPT !.doc_len[doc.ID] = doc.Length, !.has_len = @ \cup {doc.ID}]

\* the pipelined commands of one document: doc length, then per token
\* SAdd posting, Set tf, Incr df
AddOne(rd, doc) ==
    LET toks == DOMAIN doc.Tokens
    IN  [rd EXCEPT
           !.doc_len[doc.ID] = doc.Length,
           !.has_len = @ \cup {doc.ID},
           !.posting = [t \in Terms |-> IF t \in toks THEN @[t] \cup {doc.ID} ELSE @[t]],
           !.tf = [t \in Terms |->
                      IF t \in toks THEN [@[t] EXCEPT ![doc.ID] = doc.Tokens[t]] ELSE @[t]],
           !.df = [t \in Terms |-> IF t \in toks THEN @[t] + 1 ELSE @[t]]]

RECURSIVE AddAll(_, _)
AddAll(rd, docs) ==
    IF docs = <<>> THEN rd ELSE AddAll(AddOne(rd, Head(docs)), Tail(docs))

\* the avg_doc_length a batch leaves: the count and the average are read
\* before the pipeline runs
NewAvg(rd, docs) ==
    LET docCount == rd.doc_count
        currentAvg == rd.avg_doc_length
        newCount == docCount + Len(docs)
    IN  IF currentAvg.den = 0 THEN Rat(0, 0)
        ELSE Norm(currentAvg.num * docCount + TotalLength(docs) * currentAvg.den,
                  currentAvg.den * newCount)

\* RedisIndex.AddDocuments with a pipeline that ran
AddDocuments(rd, docs) ==
    LET added == AddAll(rd, docs)
    IN  [added EXCEPT
           !.doc_count = @ + Len(docs),
           !.avg_doc_length = IF Len(docs) > 0 THEN NewAvg(rd, docs) ELSE @]

\* RedisIndex.RemoveDocument with a pipeline that ran: the document's
\* metadata keys are deleted and doc_count is decremented
RemoveDocument(rd, docID) ==
    [rd EXCEPT !.doc_len[docID] = 0,
               !.has_len = @ \ {docID},
               !.doc_count = @ - 1]

\* the (term, doc) pairs of a batch
PairsOf(docs) ==
    {<<t, docs[i].ID>> : t \in Terms, i \in 1..Len(docs)} \cap
    {pr \in Terms \X Docs :
        \E i \in 1..Len(docs) : docs[i].ID = pr[2] /\ pr[1] \in DOMAIN docs[i].Tokens}

Logged(op, ok, pairs) ==
    [n |-> sparseLog.n + 1, op |-> op, ok |-> ok, pairs |-> pairs]

\* RedisIndex.AddToInvertedIndex(chunks) with a pipeline that ran
S_AddToInvertedIndex ==
    /\ sparseLog.n < MaxOps
    /\ \E chunks \in ChunkBatches :
         LET indexedDocs == [i \in 1..Len(chunks) |-> IndexedDocument(chunks[i])]
         IN  /\ redis' = AddDocuments(redis, indexedDocs)
             /\ sparseLog' = Logged("AddDocuments", TRUE, PairsOf(indexedDocs))
    /\ SparseOnly

S_RemoveDocument ==
    /\ sparseLog.n < MaxOps
    /\ \E docID \in Docs :
         /\ redis' = RemoveDocument(redis, docID)
         /\ sparseLog' = Logged("RemoveDocument", TRUE, {})
    /\ SparseOnly

\* AddDocuments or RemoveDocument whose pipe.Exec returns the error of a
\* connection that sent nothing: the keys are as before
S_ExecFails ==
    /\ sparseLog.n < MaxOps
    /\ \E op \in {"AddDocuments", "RemoveDocument"} :
         sparseLog' = Logged(op, FALSE, {})
    /\ redis' = redis
    /\ SparseOnly

\* RedisIndex.Clear: every key of the prefix is deleted
S_Clear ==
    /\ sparseLog.n < MaxOps
    /\ redis' = NewRedis
    /\ sparseLog' = Logged("Clear", TRUE, {})
    /\ SparseOnly

NextSparse == S_AddToInvertedIndex \/ S_RemoveDocument \/ S_ExecFails \/ S_Clear

InitSparse ==
    /\ disk = [p \in AllPaths |-> "v1"]
    /\ FreshIndexer
    /\ FreshEmbedder
    /\ FreshWatcher
    /\ FreshQuerySide

SpecSparse == InitSparse /\ [][NextSparse]_vars

\* the documents the index holds: those with a doc-length key
Indexed == redis.has_len

RECURSIVE SumLen(_)
SumLen(ds) ==
    IF ds = {} THEN 0
    ELSE LET x == CHOOSE y \in ds : TRUE IN redis.doc_len[x] + SumLen(ds \ {x})

\* C13: after any sequence of completed sparse-index operations, df[t] is
\* the size of posting(t), doc_count is the number of indexed documents and
\* avg_doc_length is the mean of their lengths.
C13_StatsConsistent ==
    /\ \A t \in Terms : redis.df[t] = Cardinality(redis.posting[t])
    /\ redis.doc_count = Cardinality(Indexed)
    /\ Indexed # {} =>
          redis.avg_doc_length.num * Cardinality(Indexed)
              = SumLen(Indexed) * redis.avg_doc_length.den

\* C14: after a successful AddDocuments, every (term, doc) pair of the batch
\* has doc in posting(term), tf(term, doc) > 0 and df(term) >= 1.
C14_PairsIndexed ==
    (sparseLog.op = "AddDocuments" /\ sparseLog.ok) =>
        \A pr \in sparseLog.pairs :
            /\ pr[2] \in redis.posting[pr[1]]
            /\ redis.tf[pr[1]][pr[2]] > 0
            /\ redis.df[pr[1]] >= 1

\* a batch of two documents sharing a term was added as the last operation
C14_Witness ==
    /\ sparseLog.op = "AddDocuments"
    /\ sparseLog.ok
    /\ sparseLog.n = MaxOps
    /\ {<<"t1", "d1">>, <<"t1", "d2">>, <<"t2", "d2">>} \subseteq sparseLog.pairs
    /\ redis.tf["t1"]["d1"] = 2

-----------------------------------------------------------------------------
(* The hybrid retriever: internal/retrieval/retriever.go *)

\* FusionConfig.RRFConstant of DefaultFusionConfig
RRFConstant == 60

\* a search result with its score
Hit(id, source, score) == [id |-> id, source |-> source, score |-> score]

\* the id lists a search can hand back: distinct ids, best first
HitLists ==
    {ids \in UNION {[1..n -> GIds] : n \in 0..MaxHits} :
        \A i \in 1..Len(ids), j \in 1..Len(ids) : i # j => ids[i] # ids[j]}

\* 1/(k + rank) for rank = 0.. as an integer: scaled by the product of the
\* denominators in use
RRFScale(rank) ==
    LET F[r \in 0..MaxHits] == IF r = 0 THEN 1 ELSE (RRFConstant + r) * F[r - 1]
    IN  F[MaxHits] \div (RRFConstant + rank + 1)

\* what executeVectorSearch gives when the store's Search fails: the error
\* is logged and the vector side is empty (mutant: the error is returned)
OnSearchError_Propagate == [err |-> "search", results |-> <<>>]

OnSearchError == [err |-> "nil", results |-> <<>>]

\* Retriever.executeVectorSearch
executeVectorSearch(A) ==
    IF A.embed = "err" THEN [err |-> "embed", results |-> <<>>]
    ELSE IF A.vsearch = "unsupported" THEN [err |-> "nil", results |-> <<>>]
    ELSE IF A.vsearch = "err" THEN OnSearchError
    ELSE [err |-> "nil",
          results |-> [i \in 1..Len(A.vids) |->
                          Hit(A.vids[i], "vector", Len(A.vids) + 1 - i)]]

\* Retriever.executeKeywordSearch: the ids of keyword.Search whose chunk the
\* store returns and whose score the scorer computes
executeKeywordSearch(A) ==
    IF A.keyword # "ok" THEN <<>>
    ELSE LET kept == SelectSeq(A.kids,
                               LAMBDA id : A.store[id] = "chunk" /\ A.kscore[id] > 0)
         IN  [i \in 1..Len(kept) |-> Hit(kept[i], "keyword", A.kscore[kept[i]])]

\* the rank of id in results, 0 when absent
RankOf(results, id) ==
    IF \E i \in 1..Len(results) : results[i].id = id
    THEN CHOOSE i \in 1..Len(results) : results[i].id = id
    ELSE 0

\* reciprocalRankFusion before its sort: one hybrid result per chunk id
reciprocalRankFusion(vectorResults, keywordResults) ==
    LET ids == {vectorResults[i].id : i \in 1..Len(vectorResults)} \cup
               {keywordResults[i].id : i \in 1..Len(keywordResults)}
        part(results, id) ==
            IF RankOf(results, id) = 0 THEN 0 ELSE RRFScale(RankOf(results, id) - 1)
    IN  {Hit(id, "hybrid", part(vectorResults, id) + part(keywordResults, id)) : id \in ids}

\* Retriever.combineResults, as the set of results before the sort
combineResults(vectorResults, keywordResults) ==
    IF Len(vectorResults) > 0 /\ Len(keywordResults) > 0
    THEN reciprocalRankFusion(vectorResults, keywordResults)
    ELSE IF Len(vectorResults) > 0 THEN Range(vectorResults)
    ELSE Range(keywordResults)

\* the orders sort.Slice by descending Score can leave: equal scores in any
\* order
SortedByScore(S) ==
    {f \in [1..Cardinality(S) -> S] :
        /\ \A i \in 1..Cardinality(S), j \in 1..Cardinality(S) : i # j => f[i] # f[j]
        /\ \A i \in 1..(Cardinality(S) - 1) : f[i].score >= f[i + 1].score}

\* Retriever.finalizeResults: sorted, cut at the limit (10 when none given)
finalizeResults(S, limit) ==
    {Take(f, IF limit <= 0 THEN 10 ELSE limit) : f \in SortedByScore(S)}

\* DefaultExpandConfig
DefaultExpandConfig ==
    [IncludeCalledFunctions |-> TRUE, IncludeCallers |-> TRUE,
     IncludeImports |-> FALSE, IncludeParentType |-> TRUE,
     IncludeChildMethods |-> TRUE, MaxDepth |-> 1, MaxChunks |-> 50]

\* the results Retrieve hands back for the final results
Expanded(A, g, finalResults) ==
    LET rs == [i \in 1..Len(finalResults) |->
                  Result(finalResults[i].id, finalResults[i].source)]
    IN  IF A.expander = "on"
        THEN Expand([g |-> g, hasGraph |-> TRUE, store |-> A.store,
                     cfg |-> DefaultExpandConfig], rs)
        ELSE rs

\* Retriever.Retrieve: the outcomes the call can have
Retrieve(A, g) ==
    LET v == executeVectorSearch(A)
    IN  IF v.err # "nil" THEN {[done |-> TRUE, err |-> v.err, results |-> <<>>]}
        ELSE {[done |-> TRUE, err |-> "nil", results |-> Expanded(A, g, finalResults)] :
                 finalResults \in finalizeResults(combineResults(v.results, executeKeywordSearch(A)),
                                        A.limit)}

\* the chunk stores of the retriever: QdrantStore.Get returns the chunk or
\* an error
RetrieverStores == {[n \in GIds |-> IF n = "2" THEN o ELSE "chunk"] : o \in {"chunk", "err"}}

\* Scorer.Score per id: 0 for an error, else the score
ScoreTables == {[n \in GIds |-> IF n = "3" THEN 1 ELSE sc[n]] : sc \in [{"1", "2"} -> 0..2]}

\* the graphs of the retriever's expander: empty, or one call edge from "1"
RetrieverGraphs ==
    {GraphOf(<<>>)} \cup
    {GraphOf(<<k>>) : k \in {x \in 0..(EdgeKinds - 1) :
                                EdgeAt(x).From = "1" /\ EdgeAt(x).To = "3"
                                /\ EdgeAt(x).Relation = "call"}}

\* query.MaxResults
Limits == {0, 1, 2}

\* one Retrieve call
R_Retrieve ==
    /\ fnArgs.fn = "Retrieve"
    /\ ~fnRet.done
    /\ fnRet' \in Retrieve(fnArgs, graph)
    /\ UNCHANGED <<fnArgs>>
    /\ FnOnly

NextRetrieve == R_Retrieve

InitRetrieve ==
    /\ disk = [p \in AllPaths |-> "v1"]
    /\ FreshIndexer
    /\ FreshEmbedder
    /\ FreshWatcher
    /\ redis = NewRedis
    /\ sparseLog = NoSparseCall
    /\ \E embed \in {"ok", "err"}, vsearch \in {"ok", "err", "unsupported"},
          vids \in HitLists, keyword \in {"ok", "err", "nil"}, kids \in HitLists,
          kscore \in ScoreTables, st \in RetrieverStores, limit \in Limits,
          expander \in {"on", "off", "nil"}, g \in RetrieverGraphs :
          /\ embed = "err" =>
                vsearch = "ok" /\ keyword = "nil" /\ limit = 0 /\ expander = "nil"
          /\ vsearch # "ok" => vids = <<>>
          /\ keyword # "ok" => kids = <<>> /\ kscore["1"] = 1 /\ kscore["2"] = 1
          /\ expander # "on" => g = GraphOf(<<>>)
          /\ graph = g
          /\ builder = NewBuilder
          /\ fnArgs = [fn |-> "Retrieve", embed |-> embed, vsearch |-> vsearch,
                       vids |-> vids, keyword |-> keyword, kids |-> kids,
                       kscore |-> kscore, store |-> st, limit |-> limit,
                       expander |-> expander]
    /\ fnRet = NotReturned

SpecRetrieve == InitRetrieve /\ [][NextRetrieve]_vars

-----------------------------------------------------------------------------
(* Claims about the retriever *)

RetrieveReturned == fnArgs.fn = "Retrieve" /\ fnRet.done

\* the returned results that are not expansions
Retrieved ==
    SelectSeq(fnRet.results,
              LAMBDA r : r.source \in {"vector", "keyword", "hybrid"})

\* the ids the keyword side yields: found by the keyword search, with a
\* chunk in the store and a score
KeywordSide ==
    {id \in Range(fnArgs.kids) : fnArgs.store[id] = "chunk" /\ fnArgs.kscore[id] > 0}

\* C15: when the query embedding succeeds and the vector search fails,
\* Retrieve returns no error, no result comes from the vector side, and the
\* keyword side's results are returned: the best-scored of them up to the
\* limit, best first.
C15_KeywordSurvivesVectorFailure ==
    (RetrieveReturned /\ fnArgs.embed = "ok" /\ fnArgs.vsearch = "err") =>
        /\ fnRet.err = "nil"
        /\ \A i \in 1..Len(Retrieved) :
              /\ Retrieved[i].source = "keyword"
              /\ Retrieved[i].id \in KeywordSide
        /\ Len(Retrieved) =
              Min(Cardinality(KeywordSide), IF fnArgs.limit <= 0 THEN 10 ELSE fnArgs.limit)
        /\ \A i \in 1..Len(Retrieved), id \in KeywordSide :
              (\A j \in 1..Len(Retrieved) : Retrieved[j].id # id) =>
                  fnArgs.kscore[id] <= fnArgs.kscore[Retrieved[i].id]
        /\ \A i \in 1..(Len(Retrieved) - 1) :
              fnArgs.kscore[Retrieved[i].id] >= fnArgs.kscore[Retrieved[i + 1].id]

\* the vector search failed and two keyword results came back, best first
C15_Witness ==
    /\ RetrieveReturned
    /\ fnArgs.embed = "ok"
    /\ fnArgs.vsearch = "err"
    /\ fnArgs.kids = <<"1", "2">>
    /\ fnRet.err = "nil"
    /\ Len(Retrieved) = 2
    /\ Retrieved[1].id = "2"
    /\ fnArgs.kscore["2"] > fnArgs.kscore["1"]

-----------------------------------------------------------------------------
(* The rerankers: internal/reranker/reranker.go *)

\* HeuristicReranker.weights in tenths: function 1.2, comment 0.5
Weight10(chunkType) == IF chunkType = "function" THEN 12 ELSE 5

\* the relevance the heuristic reranker assigns, in tenths: the score times
\* the code-type weight (the match, path and recency bonuses multiply the
\* score in the same way and are part of Score here)
Relevance(r) == r.Score * Weight10(r.ChunkType)

\* cosineSimilarity of two chunk embeddings in tenths: 0 when either is
\* absent, 1 for equal directions ("x", "x"), 0 for orthogonal ones ("x", "y")
cosineSimilarity(a, b) ==
    IF a = "none" \/ b = "none" THEN 0
    ELSE IF a = b THEN 10
    ELSE 0

\* MMRReranker.maxSimilarity
maxSimilarity(candidate, selected) ==
    IF candidate.Embedding = "none" THEN 0
    ELSE LET sims == {cosineSimilarity(candidate.Embedding, selected[i].Embedding) :
                         i \in 1..Len(selected)} \cup {0}
         IN  CHOOSE m \in sims : \A x \in sims : x <= m

\* lambda * relevance - (1 - lambda) * maxSim, lambda in tenths
mmrScore(lambda10, c, selected) ==
    lambda10 * Relevance(c) - (10 - lambda10) * maxSimilarity(c, selected)

Better_Lower(score, best) == score < best

\* `mmrScore > bestMMR`
Better(score, best) == score > best

RECURSIVE BestIdx(_, _, _, _, _)
\* the inner loop of Rerank: the index of the first candidate with the
\* highest MMR score
BestIdx(lambda10, candidates, selected, i, bestIdx) ==
    IF i > Len(candidates) THEN bestIdx
    ELSE IF bestIdx = 0 \/ Better(mmrScore(lambda10, candidates[i], selected),
                                  mmrScore(lambda10, candidates[bestIdx], selected))
    THEN BestIdx(lambda10, candidates, selected, i + 1, i)
    ELSE BestIdx(lambda10, candidates, selected, i + 1, bestIdx)

\* seq without its i-th element
RemoveAt(seq, i) == SubSeq(seq, 1, i - 1) \o SubSeq(seq, i + 1, Len(seq))

RECURSIVE MMRSelect(_, _, _)
\* the outer loop of Rerank: move the best candidate to selected until no
\* candidate is left
MMRSelect(lambda10, candidates, selected) ==
    IF Len(candidates) = 0 THEN selected
    ELSE LET b == BestIdx(lambda10, candidates, selected, 1, 0)
         IN  MMRSelect(lambda10, RemoveAt(candidates, b), Append(selected, candidates[b]))

\* HeuristicReranker.Rerank: the orders its sort by descending relevance
\* can leave
HeuristicRerank(results) ==
    {f \in [1..Len(results) -> Range(results)] :
        /\ \A i \in 1..Len(results), j \in 1..Len(results) : i # j => f[i] # f[j]
        /\ \A i \in 1..(Len(results) - 1) : Relevance(f[i]) >= Relevance(f[i + 1])}

\* MMRReranker.Rerank over the heuristic reranker
MMRRerank(lambda10, results) ==
    {[done |-> TRUE, err |-> "nil",
      results |-> IF Len(ranked) = 0 THEN ranked ELSE MMRSelect(lambda10, ranked, <<>>)] :
        ranked \in HeuristicRerank(results)}

\* the lambdas tried, in tenths: pure diversity, the default 0.7, pure relevance
Lambdas == {0, 7, 10}

\* the results handed to the reranker; Pos tells equal results apart
RankInputs ==
    UNION {{[i \in 1..n |-> [Pos |-> i, Score |-> f[i].Score, ChunkType |-> f[i].ChunkType,
                             Embedding |-> f[i].Embedding]] :
               f \in [1..n -> [Score : {1, 2}, ChunkType : {"function", "comment"},
                               Embedding : {"none", "x", "y"}]]} :
           n \in 0..MaxRanked}

\* one Rerank call
M_Rerank ==
    /\ fnArgs.fn = "Rerank"
    /\ ~fnRet.done
    /\ fnRet' \in MMRRerank(fnArgs.lambda10, fnArgs.results)
    /\ UNCHANGED <<fnArgs>>
    /\ FnOnly

NextRerank == M_Rerank

InitRerank ==
    /\ disk = [p \in AllPaths |-> "v1"]
    /\ FreshIndexer
    /\ FreshEmbedder
    /\ FreshWatcher
    /\ graph = NewGraph
    /\ builder = NewBuilder
    /\ redis = NewRedis
    /\ sparseLog = NoSparseCall
    /\ \E lambda10 \in Lambdas, rs \in RankInputs :
          fnArgs = [fn |-> "Rerank", lambda10 |-> lambda10, results |-> rs]
    /\ fnRet = NotReturned

SpecRerank == InitRerank /\ [][NextRerank]_vars

-----------------------------------------------------------------------------
(* Claims about the rerankers *)

RerankReturned == fnArgs.fn = "Rerank" /\ fnRet.done

\* C18: an MMR selection returns as many results as it was given, and the
\* first result selected has the highest relevance of the input results.
C18_SameSizeBestFirst ==
    RerankReturned =>
        /\ Len(fnRet.results) = Len(fnArgs.results)
        /\ Len(fnArgs.results) > 0 =>
              \A i \in 1..Len(fnArgs.results) :
                  Relevance(fnArgs.results[i]) <= Relevance(fnRet.results[1])

\* three results where the most relevant comes last in the input, and the
\* second pick is the diverse one, not the second most relevant
C18_Witness ==
    /\ RerankReturned
    /\ fnArgs.lambda10 = 7
    /\ Len(fnArgs.results) = 3
    /\ fnRet.results[1].Pos = 3
    /\ \A i \in 1..2 : Relevance(fnArgs.results[i]) < Relevance(fnArgs.results[3])
    /\ Relevance(fnRet.results[2]) < Relevance(fnRet.results[3])

-----------------------------------------------------------------------------
(* The prompt generator: internal/prompt/prompt.go *)

\* the mutant of Reserve: nothing is reserved for the query and the template
Reserve_Nothing(budget) == budget

\* `int(float64(budget) * 0.8)`
Reserve(budget) == (budget * 8) \div 10

RECURSIVE FitLoop(_, _, _, _, _)
\* the loop of fitToWindow over results[i..]: a result without a chunk is
\* skipped; the loop stops at the first chunk that would pass the budget,
\* unless nothing is fitted yet
FitLoop(results, i, budget, fitted, used) ==
    IF i > Len(results) THEN fitted
    ELSE IF ~results[i].hasChunk
    THEN FitLoop(results, i + 1, budget, fitted, used)
    ELSE IF used + results[i].chars > budget /\ Len(fitted) > 0
    THEN fitted
    ELSE FitLoop(results, i + 1, budget, Append(fitted, results[i]),
                 used + results[i].chars)

\* TemplateGenerator.fitToWindow
fitToWindow(G, results) ==
    IF G.maxTokens <= 0 \/ Len(results) = 0 THEN results
    ELSE FitLoop(results, 1, Reserve(G.maxTokens * G.charsPerToken), <<>>, 0)

\* TemplateGenerator.sortByRelevance: the orders the sort can leave
sortByRelevance(results) ==
    {f \in [1..Len(results) -> Range(results)] :
        /\ \A i \in 1..Len(results), j \in 1..Len(results) : i # j => f[i] # f[j]
        /\ \A i \in 1..(Len(results) - 1) :
              f[i].RelevanceScore >= f[i + 1].RelevanceScore}

\* TemplateGenerator.Generate: the results the template renders
Generate(G, results) ==
    {[done |-> TRUE, results |-> fitToWindow(G, sorted)] :
        sorted \in sortByRelevance(results)}

\* the chars-per-token estimates tried: 1, and the default 4
CharsPerToken == {1, 4}

\* the results handed to the generator: with a chunk of 1, 3 or 6
\* characters of content, or without a chunk; Pos tells equal results apart
PromptInputs ==
    UNION {{[i \in 1..n |-> [Pos |-> i, RelevanceScore |-> f[i].RelevanceScore,
                             hasChunk |-> f[i].chars > 0, chars |-> f[i].chars]] :
               f \in [1..n -> [RelevanceScore : {1, 2}, chars : {0, 1, 3, 6}]]} :
           n \in 0..MaxPrompt}

\* one Generate call
P_Generate ==
    /\ fnArgs.fn = "Generate"
    /\ ~fnRet.done
    /\ fnRet' \in Generate(fnArgs, fnArgs.results)
    /\ UNCHANGED <<fnArgs>>
    /\ FnOnly

NextPrompt == P_Generate

InitPrompt ==
    /\ disk = [p \in AllPaths |-> "v1"]
    /\ FreshIndexer
    /\ FreshEmbedder
    /\ FreshWatcher
    /\ graph = NewGraph
    /\ builder = NewBuilder
    /\ redis = NewRedis
    /\ sparseLog = NoSparseCall
    /\ \E maxTokens \in 0..MaxTokens, cpt \in CharsPerToken, rs \in PromptInputs :
          fnArgs = [fn |-> "Generate", maxTokens |-> maxTokens,
                    charsPerToken |-> cpt, results |-> rs]
    /\ fnRet = NotReturned

SpecPrompt == InitPrompt /\ [][NextPrompt]_vars

-----------------------------------------------------------------------------
(* Claims about the prompt generator *)

GenerateReturned == fnArgs.fn = "Generate" /\ fnRet.done

RECURSIVE ContentChars(_)
\* the content characters of the results kept in the prompt
ContentChars(results) ==
    IF results = <<>> THEN 0
    ELSE (IF Head(results).hasChunk THEN Head(results).chars ELSE 0)
         + ContentChars(Tail(results))

\* C19: with a token budget T > 0, the content characters of the results
\* kept in the prompt, divided by chars_per_token, are at most 0.8 * T,
\* unless only one result remains.
C19_WithinBudget ==
    (GenerateReturned /\ fnArgs.maxTokens > 0 /\ Len(fnRet.results) # 1) =>
        10 * ContentChars(fnRet.results)
            <= 8 * fnArgs.maxTokens * fnArgs.charsPerToken

\* three results were given, the lowest-ranked was dropped and the two kept
\* fill the budget exactly
C19_Witness ==
    /\ GenerateReturned
    /\ fnArgs.maxTokens > 0
    /\ Len(fnArgs.results) = 3
    /\ \A i \in 1..3 : fnArgs.results[i].hasChunk
    /\ Len(fnRet.results) = 2
    /\ ContentChars(fnRet.results) = Reserve(fnArgs.maxTokens * fnArgs.charsPerToken)

-----------------------------------------------------------------------------
(* Splitting an oversize chunk: internal/indexing/chunker.go *)

\* the bytes of a chunk's content: a letter, the braces, a newline
Bytes == {"a", "{", "}", "\n"}

\* a content whose bytes carry their position in it (from 0)
At(content) == [i \in 1..Len(content) |-> [ch |-> content[i], at |-> i - 1]]

\* the "// ...context...\n" line put before a carried-forward overlap; its
\* bytes are at no position of the original content
ContextLine == <<[ch |-> "#", at |-> 0 - 1]>>

\* content[from:to]
Slice(content, from, to) == SubSeq(content, from + 1, to)

RECURSIVE BlockScan(_, _, _, _)
\* the scan of findBlockBoundary from index i: the index after the last
\* closing brace at which the depth is back to 0, or -1
BlockScan(window, i, depth, lastZero) ==
    IF i >= Len(window) THEN lastZero
    ELSE IF window[i + 1].ch = "{" THEN BlockScan(window, i + 1, depth + 1, lastZero)
    ELSE IF window[i + 1].ch = "}"
    THEN IF depth - 1 <= 0 THEN BlockScan(window, i + 1, 0, i + 1)
         ELSE BlockScan(window, i + 1, depth - 1, lastZero)
    ELSE BlockScan(window, i + 1, depth, lastZero)

\* SemanticChunker.findBlockBoundary
findBlockBoundary(window, start) ==
    LET lastZero == BlockScan(window, 0, 0, 0 - 1)
    IN  IF lastZero > 0 /\ lastZero < Len(window) THEN start + lastZero ELSE 0 - 1

\* strings.LastIndex(window, sep) for a separator of n newlines, -1 if none
LastIndexNewlines(window, n) ==
    LET hits == {i \in 0..(Len(window) - n) :
                    \A k \in 1..n : window[i + k].ch = "\n"}
    IN  IF hits = {} THEN 0 - 1 ELSE CHOOSE i \in hits : \A j \in hits : j <= i

\* SemanticChunker.findContextAwareBreakPoint
findContextAwareBreakPoint(content, start, end, maxSize) ==
    LET window == Slice(content, start, end)
        bp == findBlockBoundary(window, start)
        idx == LastIndexNewlines(window, 2)
        searchRange == maxSize \div 5
        lastNewline == LastIndexNewlines(window, 1)
    IN  IF end >= Len(content) THEN end
        ELSE IF bp > start THEN bp
        ELSE IF idx # 0 - 1 /\ idx > 0 THEN start + idx + 2
        ELSE IF searchRange > 0 /\ lastNewline # 0 - 1
                /\ lastNewline > maxSize - searchRange
        THEN start + lastNewline + 1
        ELSE end

\* SemanticChunker.calculateStep
calculateStep(maxSize, overlap) ==
    IF maxSize - overlap >= 1 THEN maxSize - overlap
    ELSE IF maxSize \div 2 >= 1 THEN maxSize \div 2
    ELSE 1

\* SemanticChunker.nextStart
nextStart(currentStart, step) ==
    IF currentStart + step <= currentStart THEN currentStart + 1 ELSE currentStart + step

RECURSIVE SplitLoop(_, _, _, _, _, _)
\* the loop of splitLargeChunk from start, with the overlap carried forward
SplitLoop(content, maxSize, overlap, start, prevOverlap, chunks) ==
    IF start >= Len(content) THEN chunks
    ELSE LET end == Min(start + maxSize, Len(content))
             breakPoint == findContextAwareBreakPoint(content, start, end, maxSize)
             subContent == Slice(content, start, breakPoint)
             fullContent == IF prevOverlap # <<>> THEN prevOverlap \o subContent
                            ELSE subContent
             out == Append(chunks, [Content |-> fullContent, startOffset |-> start])
             overlapStart == IF Len(subContent) - overlap < 0 THEN 0
                             ELSE Len(subContent) - overlap
         IN  IF breakPoint >= Len(content) THEN out
             ELSE SplitLoop(content, maxSize, overlap,
                            nextStart(start, calculateStep(maxSize, overlap)),
                            IF overlap > 0 /\ Len(subContent) > 0
                            THEN ContextLine \o Slice(subContent, overlapStart, Len(subContent))
                            ELSE prevOverlap,
                            out)

\* SemanticChunker.splitLargeChunk
splitLargeChunk(content, maxSize, overlap) ==
    SplitLoop(At(content), maxSize, overlap, 0, <<>>, <<>>)

\* the maximum sizes and overlaps of the chunkers tried
ChunkSizes == {2, 3, 4}
Overlaps == {0, 1, 2}

\* one splitLargeChunk call
C_Split ==
    /\ fnArgs.fn = "splitLargeChunk"
    /\ ~fnRet.done
    /\ fnRet' = [done |-> TRUE,
                 chunks |-> splitLargeChunk(fnArgs.content, fnArgs.maxSize, fnArgs.overlap)]
    /\ UNCHANGED <<fnArgs>>
    /\ FnOnly

NextSplit == C_Split

\* Chunk splits the chunks whose content is longer than maxSize
InitSplit ==
    /\ disk = [p \in AllPaths |-> "v1"]
    /\ FreshIndexer
    /\ FreshEmbedder
    /\ FreshWatcher
    /\ graph = NewGraph
    /\ builder = NewBuilder
    /\ redis = NewRedis
    /\ sparseLog = NoSparseCall
    /\ \E maxSize \in ChunkSizes, overlap \in Overlaps,
          content \in UNION {[1..n -> Bytes] : n \in 1..MaxContent} :
          /\ Len(content) > maxSize
          /\ fnArgs = [fn |-> "splitLargeChunk", content |-> content,
                       maxSize |-> maxSize, overlap |-> overlap]
    /\ fnRet = NotReturned

SpecSplit == InitSplit /\ [][NextSplit]_vars

-----------------------------------------------------------------------------
(* Claims about the splitter *)

SplitReturned == fnArgs.fn = "splitLargeChunk" /\ fnRet.done

\* the positions of the original content that the sub-chunks' contents hold
Covered ==
    UNION {{fnRet.chunks[j].Content[k].at : k \in 1..Len(fnRet.chunks[j].Content)} :
              j \in 1..Len(fnRet.chunks)}
    \ {0 - 1}

\* C20: the sub-chunks of an oversize chunk cover its content: every byte
\* position of the original content is in the content of some sub-chunk.
C20_SplitCovers ==
    SplitReturned => \A pos \in 0..(Len(fnArgs.content) - 1) : pos \in Covered
=============================================================================
